---- MODULE Spec2Model ----
(***************************************************************************)
(* ESP32-the-Sequel: the planning loop (esp32_code/Dijkstra.py) and the    *)
(* motion loop (controllers/the_sequel_bot.py).                            *)
(*                                                                         *)
(* Nine specifications share this module:                                  *)
(*   SpecDijkstra  one call of dijkstra(grid, start_node, end_node), one   *)
(*                 step per iteration of its while loop;                   *)
(*   SpecPlan      the planning side's main loop on the shipped grid_map;  *)
(*   SpecMotion    the motion side's main loop around the TurnController;  *)
(*   SpecObstacles the same loop around the ObstacleDetector;              *)
(*   SpecAction    one call of get_action_from_path;                       *)
(*   SpecAnyPath   the same call on any list of cells;                     *)
(*   SpecTurn      one call of a TurnController method;                     *)
(*   SpecSession   a turn session over the iterations of the motion loop;  *)
(*   SpecFraming   the bytes of the link and how each side cuts them into  *)
(*                 messages.                                               *)
(* Grid cells are <<row, col>> with rows and columns counted from 0 as in  *)
(* the source; a grid is a sequence of rows, so grid[r + 1][c + 1] is the  *)
(* source's grid[r][c].                                                    *)
(***************************************************************************)
EXTENDS Integers, Sequences, FiniteSets, TLC

VARIABLES
    \* ---- one dijkstra call (Dijkstra.py:78-130) ----
    d_grid,         \* argument grid
    start_node,     \* argument start_node
    end_node,       \* argument end_node
    dj              \* the call's locals: pc, queue (pq._queue), came_from,
                    \* cost_so_far, path_found, nodes_explored_count,
                    \* current (last pq.get() entry), path (return value),
                    \* put_count (number of pq.put calls so far)

VARIABLES
    \* ---- the planning side's main loop (Dijkstra.py:42-50, 239-458) ----
    conn,                           \* TRUE iff conn is not None
    grid_writes,                    \* the assignments made to elements of the
                                    \* global grid_map since it was loaded, as
                                    \* pairs <<cell, value>>
    current_time_ms,                \* time.ticks_ms() read at the loop top
    current_robot_grid_pos_actual,
    current_robot_grid_pos_path,
    goal_grid_pos,
    planned_path,
    current_path_index,
    path_needs_replan,
    last_replan_time,
    pending,                        \* msg_parts of the current read not yet handled
    \* what the last step of the loop did
    event,                          \* which step it was
    webots_data,                    \* the Status it handled, or None
    planner_called,                 \* whether it called dijkstra
    command_to_webots,              \* the Command it built, or None
    sent,                           \* whether conn.sendall delivered it
    first_status_due,               \* a client was accepted and no Status of its
                                    \* session has been handled yet
    path_held_before,               \* whether planned_path was non-empty when
                                    \* the step began
    deviation_alone,                \* whether, of the replan triggers, only the
                                    \* deviation held when its Status arrived
    branches_taken                  \* which of the re-synchronising branches
                                    \* (lines 343-353 and 191-201) it ran

VARIABLES
    \* ---- the motion side's main loop (the_sequel_bot.py:469-608) ----
    current_time,                   \* robot.getTime(), in tenths of a second
    is_connected,                   \* network_manager.is_connected
    last_connection_attempt,
    last_data_transmission,
    esp32_command,
    current_phase,                  \* turn_controller.current_phase
    active_command,                 \* turn_controller.active_command
    phase_start_time,               \* turn_controller.phase_start_time
    motor_velocity,                 \* <<left, right>> last given to setVelocity,
                                    \* in thousandths
    \* what the last iteration did
    tick_event,                     \* where the iteration ended
    line_detected,                  \* the <<left, center, right>> it read
    effective_command,              \* the effective command it derived, or None
    turn_phase_run,                 \* the phase execute_turn ran in, or None
    first_without_command           \* whether it was the first iteration after a
                                    \* successful connection attempt and handled
                                    \* no esp32_command message

VARIABLES
    \* ---- the motion side's obstacle reporting (the_sequel_bot.py:119-189) ----
    last_obstacle_check,
    detected_obstacles,             \* obstacle_detector.detected_obstacles
    recent_obstacles,               \* obstacle_detector.recent_obstacles
    \* what the last iteration did
    status_built,                   \* whether it built a webots_status message
    status_obstacles,               \* that message's detected_obstacles field
    reported_before                 \* the cells in the detected_obstacles fields
                                    \* of the messages built before it

VARIABLES
    \* ---- the byte streams of the link (Dijkstra.py:278-287, 417-418;
    \*      the_sequel_bot.py:335-357, 541-576) ----
    to_planner,         \* bytes the motion side sent that conn.recv has not
                        \* returned yet
    to_robot,           \* bytes the planning side sent that client_socket.recv
                        \* has not returned yet
    statuses_sent,      \* how many webots_status messages send_data sent
    statuses_handled,   \* the webots_status messages json.loads returned
    commands_sent,      \* how many esp32_command messages sendall sent
    commands_handled,   \* the esp32_command messages json.loads returned
    planner_link        \* TRUE iff the planning side's conn is not None

VARIABLES
    \* ---- one TurnController call (the_sequel_bot.py:200-287) ----
    tc              \* pc, the method called, the controller before the call
                    \* (T), the arguments turn_direction, line_sensors and
                    \* current_time (now), the controller after the call
                    \* (after) and the speeds returned

VARIABLES
    \* ---- one get_action_from_path call (Dijkstra.py:169-235) ----
    ga              \* pc, the globals it reads (planned_path,
                    \* current_path_index, goal_grid_pos), its arguments
                    \* robot_pos_on_path and theta_deg, its result

dvars == <<d_grid, start_node, end_node, dj>>

avars == <<ga>>

tvars == <<tc>>

fvars == <<to_planner, to_robot, statuses_sent, statuses_handled,
           commands_sent, commands_handled, planner_link>>

turn == <<current_phase, active_command, phase_start_time>>

reporting == <<last_obstacle_check, detected_obstacles, recent_obstacles,
               status_built, status_obstacles, reported_before>>

mvars == <<current_time, is_connected, last_connection_attempt, last_data_transmission,
           esp32_command, turn, motor_velocity,
           tick_event, line_detected, effective_command, turn_phase_run,
           first_without_command, reporting>>

belief == <<current_robot_grid_pos_actual, current_robot_grid_pos_path, goal_grid_pos,
            planned_path, current_path_index, path_needs_replan, last_replan_time, grid_writes>>

observed == <<event, webots_data, planner_called, command_to_webots, sent, first_status_due,
              path_held_before, deviation_alone, branches_taken>>

pvars == <<conn, current_time_ms, belief, pending, observed>>

vars == <<dvars, pvars, mvars, avars, fvars, tvars>>

\* what a step of one loop leaves alone
not_dijkstra == <<pvars, mvars, avars, fvars, tvars>>
not_plan == <<dvars, mvars, avars, fvars, tvars>>
not_motion == <<dvars, pvars, avars, fvars, tvars>>
not_action == <<dvars, pvars, mvars, fvars, tvars>>
not_framing == <<dvars, pvars, mvars, avars, tvars>>
not_turn == <<dvars, pvars, mvars, avars, fvars>>

\* Python's None, shaped like a cell so that it compares with one
None == <<"None">>

(***************************************************************************)
(* Bounds of the dijkstra specification.                                   *)
(***************************************************************************)
GridRows == 2
GridCols == 3
MaxBlocked == 3

(***************************************************************************)
(* Grid helpers                                                            *)
(***************************************************************************)
GridAt(grid, r, c) == grid[r + 1][c + 1]

\* a validation that checks the bounds only
in_bounds_only(grid, node) ==
    /\ 0 <= node[1] /\ node[1] < Len(grid)
    /\ 0 <= node[2] /\ node[2] < Len(grid[1])

\* Dijkstra.py:81 and :84, the endpoint validation condition
IsValidNode(grid, node) ==
    LET rows == Len(grid)
        cols == Len(grid[1])
    IN  /\ 0 <= node[1] /\ node[1] < rows
        /\ 0 <= node[2] /\ node[2] < cols
        /\ GridAt(grid, node[1], node[2]) = 0

\* neighbours taken without looking at the cell's colour
neighbors_any_colour(r, c, rows, cols, grid) ==
    LET cand == << <<r, c + 1>>, <<r, c - 1>>, <<r + 1, c>>, <<r - 1, c>> >>
        ok(n) == /\ 0 <= n[1] /\ n[1] < rows
                 /\ 0 <= n[2] /\ n[2] < cols
        kept == SelectSeq(cand, ok)
    IN  [k \in 1..Len(kept) |-> <<kept[k], 1>>]

\* Dijkstra.py:69-76
get_valid_neighbors(r, c, rows, cols, grid) ==
    LET cand == << <<r, c + 1>>, <<r, c - 1>>, <<r + 1, c>>, <<r - 1, c>> >>
        ok(n) == /\ 0 <= n[1] /\ n[1] < rows
                 /\ 0 <= n[2] /\ n[2] < cols
                 /\ GridAt(grid, n[1], n[2]) = 0
        kept == SelectSeq(cand, ok)
    IN  [k \in 1..Len(kept) |-> <<kept[k], 1>>]

(***************************************************************************)
(* SimplePriorityQueue (Dijkstra.py:53-67).  An entry is the source's      *)
(* {'item', 'priority'} dict; seq is the ordinal of the put call that      *)
(* made it, kept so that insertion order can be stated.                    *)
(***************************************************************************)
RECURSIVE InsertUnstable(_, _)
InsertUnstable(sorted, e) ==
    IF sorted = <<>> THEN <<e>>
    ELSE IF Head(sorted).priority < e.priority
         THEN <<Head(sorted)>> \o InsertUnstable(Tail(sorted), e)
         ELSE <<e>> \o sorted

\* list.sort is stable: an entry goes after every entry of equal key that
\* precedes it in the list.
RECURSIVE InsertStable(_, _)
InsertStable(sorted, e) ==
    IF sorted = <<>> THEN <<e>>
    ELSE IF Head(sorted).priority <= e.priority
         THEN <<Head(sorted)>> \o InsertStable(Tail(sorted), e)
         ELSE <<e>> \o sorted

RECURSIVE SortUnstable(_)
SortUnstable(q) ==
    IF q = <<>> THEN <<>>
    ELSE InsertUnstable(SortUnstable(SubSeq(q, 1, Len(q) - 1)), q[Len(q)])

RECURSIVE SortByPriority(_)
SortByPriority(q) ==
    IF q = <<>> THEN <<>>
    ELSE InsertStable(SortByPriority(SubSeq(q, 1, Len(q) - 1)), q[Len(q)])

\* a put that pushes on the front and never sorts
pq_put_front(queue, item, priority, seq) ==
    <<[item |-> item, priority |-> priority, seq |-> seq]>> \o queue

\* Dijkstra.py:57-59
pq_put(queue, item, priority, seq) ==
    SortByPriority(Append(queue, [item |-> item, priority |-> priority, seq |-> seq]))

\* a get that reads the head and leaves it queued
pq_get_keeps_head(queue) == queue

\* Dijkstra.py:61-64, what pop(0) leaves in the queue
pq_get_rest(queue) == Tail(queue)

\* Dijkstra.py:66-67
pq_is_empty(queue) == Len(queue) = 0

(***************************************************************************)
(* dijkstra (Dijkstra.py:78-130)                                           *)
(***************************************************************************)
NoEntry == [item |-> None, priority |-> 0, seq |-> 0]

\* the locals on entry, before the validation of lines 81-86
DijkstraEnter ==
    [pc |-> "validate", queue |-> <<>>, came_from |-> <<>>, cost_so_far |-> <<>>,
     path_found |-> FALSE, nodes_explored_count |-> 0, current |-> NoEntry,
     path |-> <<>>, put_count |-> 0]

\* Dijkstra.py:79-95
DijkstraValidate(grid, s, e, L) ==
    IF ~IsValidNode(grid, s) \/ ~IsValidNode(grid, e)
    THEN [L EXCEPT !.pc = "done", !.path = <<>>]
    ELSE [L EXCEPT !.pc = "loop",
                   !.queue = pq_put(<<>>, s, 0, 1),
                   !.put_count = 1,
                   !.came_from = (s :> None),
                   !.cost_so_far = (s :> 0)]

\* Dijkstra.py:105-111, the for loop over the neighbours of current_node
RECURSIVE Relax(_, _, _)
Relax(L, current_node, nbrs) ==
    IF nbrs = <<>> THEN L
    ELSE LET next_node == Head(nbrs)[1]
             cost      == Head(nbrs)[2]
             new_cost  == L.cost_so_far[current_node] + cost
         IN  IF \/ next_node \notin DOMAIN L.cost_so_far
                \/ new_cost < L.cost_so_far[next_node]
             THEN Relax([L EXCEPT
                           !.cost_so_far = (next_node :> new_cost) @@ @,
                           !.queue = pq_put(@, next_node, new_cost, L.put_count + 1),
                           !.put_count = @ + 1,
                           !.came_from = (next_node :> current_node) @@ @],
                        current_node, Tail(nbrs))
             ELSE Relax(L, current_node, Tail(nbrs))

\* Dijkstra.py:97-115, one iteration of the while loop (or its exit)
DijkstraLoop(grid, e, L) ==
    IF pq_is_empty(L.queue)
    THEN [L EXCEPT !.pc = "done", !.path = <<>>]           \* lines 113-115
    ELSE LET got  == Head(L.queue)                         \* pq.get(), lines 61-64
             L1   == [L EXCEPT !.queue = pq_get_rest(@), !.current = got,
                               !.nodes_explored_count = @ + 1]
             node == got.item
         IN  IF node = e
             THEN [L1 EXCEPT !.path_found = TRUE, !.pc = "reconstruct"]
             ELSE IF node \notin DOMAIN L1.cost_so_far
                  THEN [L1 EXCEPT !.pc = "error"]          \* KeyError at line 106
                  ELSE Relax(L1, node,
                             get_valid_neighbors(node[1], node[2], Len(grid),
                                                 Len(grid[1]), grid))

\* Dijkstra.py:118-123: follow came_from from end_node, then reverse
RECURSIVE WalkBack(_, _)
WalkBack(came_from, node) ==
    IF node = None THEN <<>>
    ELSE WalkBack(came_from, IF node \in DOMAIN came_from THEN came_from[node] ELSE None)
         \o <<node>>

\* Dijkstra.py:117-130
DijkstraReconstruct(s, e, L) ==
    LET path == WalkBack(L.came_from, e)
    IN  IF path[1] # s
        THEN [L EXCEPT !.pc = "done", !.path = <<>>]       \* lines 125-127
        ELSE [L EXCEPT !.pc = "done", !.path = path]

DijkstraStep(grid, s, e, L) ==
    CASE L.pc = "validate"    -> DijkstraValidate(grid, s, e, L)
      [] L.pc = "loop"        -> DijkstraLoop(grid, e, L)
      [] L.pc = "reconstruct" -> DijkstraReconstruct(s, e, L)
      [] OTHER                -> L

RECURSIVE DijkstraRun(_, _, _, _)
DijkstraRun(grid, s, e, L) ==
    IF L.pc \in {"done", "error"} THEN L
    ELSE DijkstraRun(grid, s, e, DijkstraStep(grid, s, e, L))

\* the value returned by dijkstra(grid, start_node, end_node)
dijkstra(grid, s, e) == DijkstraRun(grid, s, e, DijkstraEnter).path

(***************************************************************************)
(* SpecDijkstra: every grid of GridRows x GridCols cells with at most      *)
(* MaxBlocked white cells, every start and end among the cells of the grid *)
(* and two cells outside it.                                               *)
(***************************************************************************)
Cells == (0..(GridRows - 1)) \X (0..(GridCols - 1))

Grids ==
    { [r \in 1..GridRows |-> [c \in 1..GridCols |->
            IF <<r - 1, c - 1>> \in blocked THEN 1 ELSE 0]] :
      blocked \in { b \in SUBSET Cells : Cardinality(b) <= MaxBlocked } }

Endpoints == Cells \cup { <<GridRows, 0>>, <<0, -1>> }

\* the module is loaded and dijkstra has not been called yet
InitDijkstra ==
    /\ d_grid = <<>>
    /\ start_node = None
    /\ end_node = None
    /\ dj = [DijkstraEnter EXCEPT !.pc = "idle"]

\* the call dijkstra(grid, start_node, end_node)
Call ==
    /\ dj.pc = "idle"
    /\ d_grid' \in Grids
    /\ start_node' \in Endpoints
    /\ end_node' \in Endpoints
    /\ dj' = DijkstraEnter
    /\ UNCHANGED not_dijkstra

Validate ==
    /\ dj.pc = "validate"
    /\ dj' = DijkstraValidate(d_grid, start_node, end_node, dj)
    /\ UNCHANGED <<d_grid, start_node, end_node>>
    /\ UNCHANGED not_dijkstra

LoopIteration ==
    /\ dj.pc = "loop"
    /\ dj' = DijkstraLoop(d_grid, end_node, dj)
    /\ UNCHANGED <<d_grid, start_node, end_node>>
    /\ UNCHANGED not_dijkstra

Reconstruct ==
    /\ dj.pc = "reconstruct"
    /\ dj' = DijkstraReconstruct(start_node, end_node, dj)
    /\ UNCHANGED <<d_grid, start_node, end_node>>
    /\ UNCHANGED not_dijkstra

NextDijkstra == Call \/ Validate \/ LoopIteration \/ Reconstruct


(***************************************************************************)
(* Reference notions for the planner's claims, defined without the queue:  *)
(* 4-connected reachability and breadth-first distance.                    *)
(***************************************************************************)
UnitStep(a, b) ==
    \/ a[1] = b[1] /\ (a[2] - b[2] = 1 \/ b[2] - a[2] = 1)
    \/ a[2] = b[2] /\ (a[1] - b[1] = 1 \/ b[1] - a[1] = 1)

PathableCells(grid) ==
    { n \in (0..(Len(grid) - 1)) \X (0..(Len(grid[1]) - 1)) : GridAt(grid, n[1], n[2]) = 0 }

Grow(grid, S) == S \cup { n \in PathableCells(grid) : \E m \in S : UnitStep(m, n) }

RECURSIVE ReachFrom(_, _)
ReachFrom(grid, S) ==
    CHOOSE R \in { IF G = S THEN S ELSE ReachFrom(grid, G) : G \in {Grow(grid, S)} } : TRUE

Reachable(grid, s, e) ==
    /\ s \in PathableCells(grid) /\ e \in PathableCells(grid)
    /\ e \in ReachFrom(grid, {s})

\* number of unit steps of a shortest route from a cell of S to e, -1 if
\* there is none
RECURSIVE BfsDistance(_, _, _, _)
BfsDistance(grid, S, e, k) ==
    IF e \in S THEN k
    ELSE CHOOSE d \in { IF G = S THEN -1 ELSE BfsDistance(grid, G, e, k + 1) :
                        G \in {Grow(grid, S)} } : TRUE

IsRoute(grid, p) ==
    /\ \A i \in 1..Len(p) : p[i] \in PathableCells(grid)
    /\ \A i \in 1..(Len(p) - 1) : UnitStep(p[i], p[i + 1])

DjDone == dj.pc = "done"

\* C6: for a reachable pair of pathable cells dijkstra returns a non-empty
\* Path from start to goal whose cells are all pathable and whose consecutive
\* cells differ by exactly one in row or in column, never both.
C6_PathIsRoute ==
    (DjDone /\ Reachable(d_grid, start_node, end_node)) =>
        /\ dj.path # <<>>
        /\ dj.path[1] = start_node
        /\ dj.path[Len(dj.path)] = end_node
        /\ IsRoute(d_grid, dj.path)

C6_Witness ==
    /\ DjDone /\ Reachable(d_grid, start_node, end_node)
    /\ Len(dj.path) >= 4
    /\ \E n \in Cells : GridAt(d_grid, n[1], n[2]) = 1

\* what is left to do in the while loop: the entries still queued plus the
\* pathable cells not yet discovered
LoopMeasure(L) ==
    Len(L.queue) + Cardinality(PathableCells(d_grid) \ DOMAIN L.cost_so_far)

\* C7: dijkstra terminates on every input without raising (every iteration
\* of its while loop strictly decreases a natural-number measure, and the
\* steps before and after the loop run once), and for valid endpoints with
\* no route between them it returns the empty Path once the frontier is
\* exhausted.
C7_TerminatesEmptyWhenUnreachable ==
    [][ /\ dj.pc = "loop" =>
             /\ dj'.pc \in {"loop", "reconstruct", "done"}
             /\ dj'.pc = "loop" => (LoopMeasure(dj') < LoopMeasure(dj) /\ LoopMeasure(dj') >= 0)
        /\ dj.pc = "validate" => dj'.pc \in {"loop", "done"}
        /\ dj.pc = "reconstruct" => dj'.pc = "done"
        /\ ( /\ dj'.pc = "done"
              /\ start_node \in PathableCells(d_grid) /\ end_node \in PathableCells(d_grid)
              /\ ~Reachable(d_grid, start_node, end_node))
            => (dj'.path = <<>> /\ dj'.queue = <<>> /\ ~dj'.path_found) ]_vars

C7_Witness ==
    /\ DjDone
    /\ start_node \in PathableCells(d_grid) /\ end_node \in PathableCells(d_grid)
    /\ ~Reachable(d_grid, start_node, end_node)
    /\ dj.nodes_explored_count >= 2
    /\ dj.path = <<>>

\* C8: the returned Path of a reachable pair has the minimum number of unit
\* steps: its length is the breadth-first distance plus one.
C8_PathIsShortest ==
    (DjDone /\ Reachable(d_grid, start_node, end_node)) =>
        Len(dj.path) = BfsDistance(d_grid, {start_node}, end_node, 0) + 1

\* a pair with two routes of different lengths, the shorter one returned
C8_Witness ==
    /\ DjDone /\ Reachable(d_grid, start_node, end_node)
    /\ Len(dj.path) = 4
    /\ \E n \in Cells : GridAt(d_grid, n[1], n[2]) = 1
    /\ Cardinality(PathableCells(d_grid)) > 4

\* the entry pq.get() must return: smallest priority, earliest put among those
EarliestOfSmallest(queue) ==
    CHOOSE e \in { queue[i] : i \in 1..Len(queue) } :
        \A i \in 1..Len(queue) :
            \/ e.priority < queue[i].priority
            \/ e.priority = queue[i].priority /\ e.seq <= queue[i].seq

EndpointInvalid ==
    start_node \notin PathableCells(d_grid) \/ end_node \notin PathableCells(d_grid)

\* C10 as stated: an invalid endpoint gives an outcome the caller can tell
\* from the empty Path of the no-route case.
C10_InvalidEndpointDistinct ==
    (DjDone /\ EndpointInvalid) => dj.path # <<>>

\* C10 as amended: an invalid endpoint makes dijkstra return the empty Path,
\* the value of the no-route case, before anything is put on the frontier.
C10_InvalidEndpointEmpty ==
    (DjDone /\ EndpointInvalid) =>
        /\ dj.path = <<>>
        /\ dj.nodes_explored_count = 0
        /\ dj.put_count = 0

\* a pathable start with a white (non-pathable, in bounds) goal
C10_Witness ==
    /\ DjDone
    /\ start_node \in PathableCells(d_grid)
    /\ end_node \in Cells /\ GridAt(d_grid, end_node[1], end_node[2]) = 1
    /\ dj.path = <<>>

(***************************************************************************)
(* The planning side (Dijkstra.py).  Headings are whole degrees.           *)
(***************************************************************************)
GRID_ROWS == 15
GRID_COLS == 21

\* Dijkstra.py:23-39
grid_map == <<
    <<1,1,1,1,1,1,1,1,1,1,1,1,1,1,0,1,0,1,0,1,0>>,
    <<1,1,1,1,1,1,1,1,1,1,1,1,1,1,0,1,0,1,0,1,0>>,
    <<0,0,0,0,0,0,0,0,0,0,0,0,0,0,0,0,0,0,0,0,0>>,
    <<0,1,1,1,1,1,1,1,1,1,0,1,1,1,1,1,1,1,1,1,0>>,
    <<0,1,1,1,1,1,1,1,1,1,0,1,1,1,1,1,1,1,1,1,0>>,
    <<0,0,0,0,0,0,0,0,0,0,0,1,1,1,1,1,1,1,1,1,0>>,
    <<0,1,1,1,1,1,1,1,1,1,0,1,1,1,1,1,1,1,1,1,0>>,
    <<0,0,0,0,0,0,0,0,0,0,0,0,0,0,0,0,0,0,0,0,0>>,
    <<0,1,1,1,1,1,1,1,1,1,0,1,1,1,1,1,1,1,1,1,0>>,
    <<0,1,1,1,1,1,1,1,1,1,0,0,0,0,0,0,0,0,0,0,0>>,
    <<0,1,1,1,1,1,1,1,1,1,0,1,1,1,1,1,1,1,1,1,0>>,
    <<0,1,1,1,1,1,1,1,1,1,0,1,1,1,1,1,1,1,1,1,0>>,
    <<0,0,0,0,0,0,0,0,0,0,0,0,0,0,0,0,0,0,0,0,0>>,
    <<0,1,0,1,0,1,0,1,1,1,1,1,1,1,1,1,1,1,1,1,1>>,
    <<0,1,0,1,0,1,0,1,1,1,1,1,1,1,1,1,1,1,1,1,1>> >>

MaxTicks == 2
MaxBatch == 2

\* reported cells: the start of the shipped scenario and the next two cells
\* of its path, the goal, and a white cell
Positions == { <<3, 20>>, <<4, 20>>, <<5, 20>>, <<14, 4>>, <<3, 19>> }

Goals == { <<14, 4>>, <<5, 20>>, <<3, 19>> }

Thetas == { 0, 90 }

\* Dijkstra.py:50
REPLAN_INTERVAL_MS == 1000

\* Dijkstra.py:227, in degrees
ANGLE_THRESHOLD_DEG == 40

Abs(x) == IF x < 0 THEN -x ELSE x

\* an angle taken as it comes
NotNormalized(a) == a

\* math.atan2(math.sin(a), math.cos(a)) for a within two turns of zero: the
\* angle brought back into [-180, 180]; an angle of exactly 180 or -180
\* keeps its sign (sin(pi) is a tiny positive float, sin(-pi) a tiny
\* negative one).
NormalizeDeg(a) ==
    IF a > 180 THEN a - 360
    ELSE IF a < -180 THEN a + 360
    ELSE a

\* a search of the whole list, whatever lo
IndexAnywhere(path, x, lo) ==
    LET hits == { j \in 0..(Len(path) - 1) : path[j + 1] = x }
    IN  IF hits = {} THEN -1
        ELSE CHOOSE j \in hits : \A k \in hits : j <= k

\* list.index(x, lo): the first 0-based position >= lo holding x, or -1
\* where Python raises ValueError
IndexFrom(path, x, lo) ==
    LET hits == { j \in lo..(Len(path) - 1) : path[j + 1] = x }
    IN  IF hits = {} THEN -1
        ELSE CHOOSE j \in hits : \A k \in hits : j <= k

\* The angles of lines 218-229 are doubles in radians, so a difference that
\* is exactly 40 or exactly 180 in whole degrees comes out a rounding error
\* above or below it, depending on the operands: for the step to the left
\* and a heading of math.radians(140) the difference exceeds
\* math.radians(40), for the step to the right and math.radians(-40) it does
\* not.  The sign of that error is the argument `rounding`.
Roundings == {-1, 0, 1}

\* Dijkstra.py:169-235.  G is the record of the planning globals; the result
\* is the action and the (possibly re-aligned) current_path_index.
get_action_from_path(G, robot_pos_on_path, theta_deg, rounding) ==
    LET path == G.planned_path
        idx  == G.current_path_index
        n    == Len(path)
        stop(i) == [action |-> "stop", idx |-> i]
        heading(cur, nxt, i) ==                      \* lines 204-235
            LET dr == nxt[1] - cur[1]
                dc == nxt[2] - cur[2]
                adjacent == \/ (dc = 1 \/ dc = -1) /\ dr = 0
                            \/ (dr = 1 \/ dr = -1) /\ dc = 0
                target_theta ==
                    IF dc = 1 /\ dr = 0 THEN 0
                    ELSE IF dc = -1 /\ dr = 0 THEN 180
                    ELSE IF dr = 1 /\ dc = 0 THEN 90
                    ELSE -90
                current_theta_norm == NormalizeDeg(theta_deg)
                angle_diff == NormalizeDeg(target_theta - current_theta_norm)
                \* abs(angle_diff) > ANGLE_THRESHOLD_RAD, line 229
                beyond == \/ Abs(angle_diff) > ANGLE_THRESHOLD_DEG
                          \/ angle_diff = ANGLE_THRESHOLD_DEG /\ rounding = 1
                          \/ angle_diff = -ANGLE_THRESHOLD_DEG /\ rounding = -1
                \* angle_diff > 0, line 232: half a turn rounded past pi comes
                \* out of atan2 as -pi, and the other way round
                positive == IF angle_diff = 180 /\ rounding = 1 THEN FALSE
                            ELSE IF angle_diff = -180 /\ rounding = -1 THEN TRUE
                            ELSE angle_diff > 0
            IN  IF ~adjacent THEN stop(i)                               \* 213-215
                ELSE IF beyond
                     THEN [action |-> IF positive THEN "turn_left" ELSE "turn_right",
                           idx |-> i]
                     ELSE [action |-> "forward", idx |-> i]
    IN  IF path = <<>> \/ robot_pos_on_path = None THEN stop(idx)        \* 172
        ELSE IF robot_pos_on_path = G.goal_grid_pos THEN stop(idx)       \* 175
        ELSE IF ~(0 <= idx /\ idx < n - 1) THEN stop(idx)                \* 179-183
        ELSE IF robot_pos_on_path = path[idx + 1]                        \* 190
             THEN heading(path[idx + 1], path[idx + 2], idx)
             ELSE LET j == IndexFrom(path, robot_pos_on_path, idx)       \* 194
                  IN  IF j = -1 THEN stop(idx)                           \* 199-201
                      ELSE IF j >= n - 1 THEN stop(j)                    \* 196-197
                      ELSE heading(path[j + 1], path[j + 2], j)

(***************************************************************************)
(* SpecAction: single calls of get_action_from_path on a one-step path in  *)
(* each of the four directions, from every whole-degree heading.           *)
(***************************************************************************)
\* headings run over -MaxHeading..MaxHeading degrees
MaxHeading == 360

Headings == (-MaxHeading)..MaxHeading

\* the cell the one-step paths start from and the four cells next to it
StepFrom == <<7, 10>>
StepTo == {<<7, 11>>, <<7, 9>>, <<8, 10>>, <<6, 10>>}

\* no call made yet
InitAction ==
    ga = [pc |-> "idle", planned_path |-> <<>>, current_path_index |-> 0,
          index_at_call |-> 0, goal_grid_pos |-> None, robot_pos_on_path |-> None, theta_deg |-> 0,
          rounding |-> 0, action |-> "stop"]

\* get_action_from_path(robot_pos_on_path, world_theta_rad, ...) is called
\* with the robot on the first cell of a two-cell path to the goal
ActionCall ==
    /\ ga.pc = "idle"
    /\ \E nxt \in StepTo, theta \in Headings, rounding \in Roundings :
          ga' = [pc |-> "called", planned_path |-> <<StepFrom, nxt>>,
                 current_path_index |-> 0, index_at_call |-> 0, goal_grid_pos |-> nxt,
                 robot_pos_on_path |-> StepFrom, theta_deg |-> theta,
                 rounding |-> rounding, action |-> "stop"]
    /\ UNCHANGED not_action

\* paths of up to MaxPathLen cells
MaxPathLen == 3

\* cells next to each other, diagonal to each other and two columns apart
AnyCells == {<<7, 10>>, <<7, 11>>, <<8, 10>>, <<8, 11>>, <<7, 12>>}

\* lists of cells, in any order and with repetitions
AnyPaths == UNION {[1..n -> AnyCells] : n \in 0..MaxPathLen}

\* the function called with any path, any cursor from before its start to
\* behind its end, and any path position or none
ActionCallAnyPath ==
    /\ ga.pc = "idle"
    /\ \E path \in AnyPaths, idx \in (-1)..MaxPathLen,
          pos \in AnyCells \cup {None}, goal \in {<<7, 11>>, <<8, 11>>},
          theta \in Thetas :
          ga' = [pc |-> "called", planned_path |-> path,
                 current_path_index |-> idx, index_at_call |-> idx,
                 goal_grid_pos |-> goal, robot_pos_on_path |-> pos,
                 theta_deg |-> theta, rounding |-> 0, action |-> "stop"]
    /\ UNCHANGED not_action

\* the call returns its action
ActionReturn ==
    /\ ga.pc = "called"
    /\ ga' = [ga EXCEPT
                !.pc = "done",
                !.action = get_action_from_path(ga, ga.robot_pos_on_path, ga.theta_deg,
                                                ga.rounding).action,
                !.current_path_index =
                    get_action_from_path(ga, ga.robot_pos_on_path, ga.theta_deg,
                                         ga.rounding).idx]
    /\ UNCHANGED not_action

NextAction == ActionCall \/ ActionReturn

NextAnyPath == ActionCallAnyPath \/ ActionReturn

\* the heading the step of the call's path asks for (lines 208-212)
StepHeading ==
    LET cur == ga.planned_path[1]
        nxt == ga.planned_path[2]
    IN  IF nxt[2] = cur[2] + 1 THEN 0
        ELSE IF nxt[2] = cur[2] - 1 THEN 180
        ELSE IF nxt[1] = cur[1] + 1 THEN 90
        ELSE -90

\* an angle wrapped into (-180, 180]
WrapDeg(a) == LET r == a % 360 IN IF r > 180 THEN r - 360 ELSE r

\* C14 as stated: a turn exactly when the error wrapped into (-180, 180] is
\* beyond 40 degrees in absolute value, turn_left for a positive error and
\* turn_right for a negative one, forward otherwise.
C14_TurnBySignOfWrappedError ==
    ga.pc = "done" =>
        LET error == WrapDeg(StepHeading - ga.theta_deg)
        IN  ga.action = IF Abs(error) > ANGLE_THRESHOLD_DEG
                        THEN IF error > 0 THEN "turn_left" ELSE "turn_right"
                        ELSE "forward"

\* C14 as amended: for an error wrapped into (-180, 180] of more than 40 and
\* less than 180 degrees in absolute value the action is turn_left when the
\* error is positive and turn_right when it is negative; for an error of less
\* than 40 degrees, a heading equal to the target included, it is forward;
\* at exactly 40 degrees it is forward or the turn of the error's sign, and
\* at half a turn it is one of the two turns, as the rounding falls.
C14_TurnBeyondThreshold ==
    ga.pc = "done" =>
        LET error == WrapDeg(StepHeading - ga.theta_deg)
            by_sign == IF error > 0 THEN "turn_left" ELSE "turn_right"
        IN  /\ (Abs(error) > ANGLE_THRESHOLD_DEG /\ error # 180) => ga.action = by_sign
            /\ (Abs(error) < ANGLE_THRESHOLD_DEG) => ga.action = "forward"
            /\ (Abs(error) = ANGLE_THRESHOLD_DEG) => ga.action \in {"forward", by_sign}
            /\ (error = 180) => ga.action \in {"turn_left", "turn_right"}

\* a call with an error of exactly 40 degrees, the heading needing a wrap,
\* that came out as a turn
C14_Witness ==
    /\ ga.pc = "done"
    /\ ga.theta_deg > 180
    /\ WrapDeg(StepHeading - ga.theta_deg) = ANGLE_THRESHOLD_DEG
    /\ ga.action = "turn_left"

\* an update that never looks at the distance from the path position
UpdateActualOnly(G, new_robot_pos_actual) ==
    IF new_robot_pos_actual # G.current_robot_grid_pos_actual
    THEN [G EXCEPT !.current_robot_grid_pos_actual = new_robot_pos_actual,
                   !.current_robot_grid_pos_path =
                       IF @ = None THEN new_robot_pos_actual ELSE @]
    ELSE G

\* Dijkstra.py:299-311: the reported position differs from the stored one
UpdateActual(G, new_robot_pos_actual) ==
    IF new_robot_pos_actual # G.current_robot_grid_pos_actual
    THEN LET pp == G.current_robot_grid_pos_path
             deviates ==
                 /\ pp # None
                 /\ \/ Abs(new_robot_pos_actual[1] - pp[1]) > 1
                    \/ Abs(new_robot_pos_actual[2] - pp[2]) > 1
         IN  [G EXCEPT !.current_robot_grid_pos_actual = new_robot_pos_actual,
                       !.path_needs_replan = IF deviates THEN TRUE ELSE @,
                       !.current_robot_grid_pos_path =
                           IF pp = None THEN new_robot_pos_actual ELSE pp]
    ELSE G

\* Dijkstra.py:314-322
UpdateGoal(G, new_robot_pos_actual, new_goal_pos_from_webots) ==
    LET G1 == IF new_goal_pos_from_webots # G.goal_grid_pos
              THEN [G EXCEPT !.goal_grid_pos = new_goal_pos_from_webots,
                             !.path_needs_replan = TRUE]
              ELSE G
        G2 == IF G1.current_robot_grid_pos_actual = None
              THEN [G1 EXCEPT !.current_robot_grid_pos_actual = new_robot_pos_actual]
              ELSE G1
        G3 == IF G2.current_robot_grid_pos_path = None
              THEN [G2 EXCEPT !.current_robot_grid_pos_path = new_robot_pos_actual]
              ELSE G2
    IN  IF G3.goal_grid_pos = None
        THEN [G3 EXCEPT !.goal_grid_pos = new_goal_pos_from_webots,
                        !.path_needs_replan = TRUE]
        ELSE G3

\* a planner that is tried at every Status
ReplanAtEveryStatus(G, now) == TRUE

\* Dijkstra.py:326, the condition under which the planner is tried
ReplanDue(G, now) ==
    G.path_needs_replan \/ (now - G.last_replan_time > REPLAN_INTERVAL_MS)

\* Dijkstra.py:327, both positions known
CanPlan(G) == G.current_robot_grid_pos_actual # None /\ G.goal_grid_pos # None

\* an adoption that keeps the old path when the planner found none
AdoptPathOrKeep(G, new_path, now) ==
    IF new_path # <<>>
    THEN [G EXCEPT !.planned_path = new_path, !.current_path_index = 0,
                   !.current_robot_grid_pos_path = new_path[1],
                   !.path_needs_replan = FALSE, !.last_replan_time = now]
    ELSE [G EXCEPT !.path_needs_replan = TRUE]

\* an adoption that puts the cursor behind the last cell of the new path
AdoptPathCursorAtEnd(G, new_path, now) ==
    IF new_path # <<>>
    THEN [G EXCEPT !.planned_path = new_path, !.current_path_index = Len(new_path),
                   !.current_robot_grid_pos_path = new_path[1],
                   !.path_needs_replan = FALSE, !.last_replan_time = now]
    ELSE [G EXCEPT !.planned_path = <<>>, !.path_needs_replan = TRUE]

\* Dijkstra.py:333-358, what is done with the planner's result new_path
AdoptPath(G, new_path, now) ==
    IF new_path # <<>>
    THEN LET actual == G.current_robot_grid_pos_actual
             at == IndexFrom(new_path, actual, 0)
         IN  [G EXCEPT
               !.planned_path = new_path,
               !.current_path_index =
                   IF new_path[1] = actual THEN 0
                   ELSE IF at # -1 THEN at ELSE 0,
               !.current_robot_grid_pos_path =
                   IF new_path[1] = actual THEN new_path[1]
                   ELSE IF at # -1 THEN actual ELSE new_path[1],
               !.path_needs_replan = FALSE,
               !.last_replan_time = now]
    ELSE [G EXCEPT !.planned_path = <<>>, !.path_needs_replan = TRUE]

\* a planner that never finds a route
NoPaths == [s \in Positions, g \in Goals |-> <<>>]

\* Dijkstra.py:330: dijkstra(grid_map, start, goal), tabulated over the cells
\* a Status can name so that each path is computed once
PlannedPaths ==
    [s \in Positions, g \in Goals |-> dijkstra(grid_map, s, g)]

\* the grid the global grid_map holds after the assignments in writes
GridWith(writes) ==
    [r \in 1..Len(grid_map) |->
        [c \in 1..Len(grid_map[1]) |->
            IF \E w \in writes : w[1] = <<r - 1, c - 1>>
            THEN (CHOOSE w \in writes : w[1] = <<r - 1, c - 1>>)[2]
            ELSE grid_map[r][c]]]

\* Dijkstra.py:330: the call on the grid as it is, looked up in the table
\* while that is the shipped one
PlanOn(writes, s, g) ==
    IF writes = {} THEN PlannedPaths[s, g] ELSE dijkstra(GridWith(writes), s, g)

\* Dijkstra.py:326-360
Replan(G, now) ==
    IF ReplanDue(G, now) /\ CanPlan(G)
    THEN AdoptPath(G, PlanOn(grid_writes, G.current_robot_grid_pos_actual, G.goal_grid_pos), now)
    ELSE G

\* Dijkstra.py:340-353: which branch places the cursor on an adopted path
\* that does not start at the actual position: the search for the actual
\* position (345-347) or the fall back to the path's start (348-351)
ResyncBranch(G, now) ==
    IF ReplanDue(G, now) /\ CanPlan(G)
    THEN LET actual == G.current_robot_grid_pos_actual
             new_path == PlanOn(grid_writes, actual, G.goal_grid_pos)
         IN  IF new_path = <<>> \/ new_path[1] = actual THEN {}
             ELSE IF IndexFrom(new_path, actual, 0) # -1 THEN {"search"}
             ELSE {"fallback"}
    ELSE {}

\* Dijkstra.py:363-368 and 172-201: whether the call of get_action_from_path
\* runs the re-alignment of lines 191-201
RealignBranch(G) ==
    LET robot_pos_on_path == G.current_robot_grid_pos_path
        idx == G.current_path_index
    IN  IF /\ G.planned_path # <<>>
           /\ robot_pos_on_path # None
           /\ G.goal_grid_pos # None
           /\ robot_pos_on_path # G.goal_grid_pos
           /\ 0 <= idx /\ idx < Len(G.planned_path) - 1
           /\ robot_pos_on_path # G.planned_path[idx + 1]
        THEN {"realign"}
        ELSE {}

\* an advance made as soon as forward is commanded, before the robot is
\* reported at the next cell
AdvanceSpeculatively(G, action_to_send) ==
    LET idx == G.current_path_index
    IN  IF /\ G.current_robot_grid_pos_actual = G.current_robot_grid_pos_path
           /\ action_to_send = "forward"
           /\ idx < Len(G.planned_path) - 1
        THEN [G EXCEPT !.current_path_index = idx + 1,
                       !.current_robot_grid_pos_path = G.planned_path[idx + 2]]
        ELSE G

\* an advance made whenever the robot is reported at the next cell of the
\* path, wherever the cursor's cell is
AdvanceWhenReported(G, action_to_send) ==
    LET idx == G.current_path_index
    IN  IF /\ idx < Len(G.planned_path) - 1
           /\ G.current_robot_grid_pos_actual = G.planned_path[idx + 2]
        THEN [G EXCEPT !.current_path_index = idx + 1,
                       !.current_robot_grid_pos_path = G.planned_path[idx + 2]]
        ELSE G

\* Dijkstra.py:375-399: the cursor advance that follows the action
AdvanceCursor(G, action_to_send) ==
    LET idx == G.current_path_index
    IN  IF /\ G.current_robot_grid_pos_actual = G.current_robot_grid_pos_path
           /\ action_to_send = "forward"
           /\ idx < Len(G.planned_path) - 1
           /\ G.current_robot_grid_pos_actual = G.planned_path[idx + 2]
        THEN [G EXCEPT !.current_path_index = idx + 1,
                       !.current_robot_grid_pos_path = G.planned_path[idx + 2]]
        ELSE G

\* Dijkstra.py:362-399: [G |-> globals afterwards, action |-> action_to_send]
DetermineAction(G, theta_deg, rounding) ==
    IF /\ G.planned_path # <<>>
       /\ G.current_robot_grid_pos_path # None
       /\ G.goal_grid_pos # None
    THEN LET a  == get_action_from_path(G, G.current_robot_grid_pos_path, theta_deg, rounding)
             G1 == [G EXCEPT !.current_path_index = a.idx]
         IN  [G |-> AdvanceCursor(G1, a.action), action |-> a.action]
    ELSE [G |-> G, action |-> "stop"]

\* a goal check that stops without clearing the path
GoalReachedKeepsPath(R) ==
    IF R.G.current_robot_grid_pos_actual = R.G.goal_grid_pos
    THEN [G |-> [R.G EXCEPT !.path_needs_replan = FALSE], action |-> "stop"]
    ELSE R

\* Dijkstra.py:402-407
GoalReached(R) ==
    IF R.G.current_robot_grid_pos_actual = R.G.goal_grid_pos
    THEN [G |-> [R.G EXCEPT !.planned_path = <<>>, !.path_needs_replan = FALSE],
          action |-> "stop"]
    ELSE R

\* a Command put together from the globals as they were when the Status
\* arrived
BuildCommandEarly(R) ==
    [type |-> "esp32_command",
     action |-> R.action,
     path |-> planned_path,
     robot_pos_on_path_esp_thinks |-> current_robot_grid_pos_path,
     current_path_idx_esp |-> current_path_index]

\* Dijkstra.py:410-416
BuildCommand(R) ==
    [type |-> "esp32_command",
     action |-> R.action,
     path |-> R.G.planned_path,
     robot_pos_on_path_esp_thinks |-> R.G.current_robot_grid_pos_path,
     current_path_idx_esp |-> R.G.current_path_index]

\* Dijkstra.py:292-416: the globals and the Command after a Status msg is
\* handled at clock reading now, from the globals G before it
ProcessStatus(G, msg, now, rounding) ==
    LET G1 == UpdateActual(G, msg.robot_grid_pos)
        G2 == UpdateGoal(G1, msg.robot_grid_pos, msg.goal_grid_pos)
        G3 == Replan(G2, now)
        R  == GoalReached(DetermineAction(G3, msg.theta_deg, rounding))
    IN  [G |-> R.G, command |-> BuildCommand(R)]

Globals ==
    [current_robot_grid_pos_actual |-> current_robot_grid_pos_actual,
     current_robot_grid_pos_path |-> current_robot_grid_pos_path,
     goal_grid_pos |-> goal_grid_pos,
     planned_path |-> planned_path,
     current_path_index |-> current_path_index,
     path_needs_replan |-> path_needs_replan,
     last_replan_time |-> last_replan_time]

\* what a Status can report in its detected_obstacles: nothing, or, from
\* the start cell of the shipped scenario, the next two cells of its route
ObstacleReports(robot_grid_pos) ==
    IF robot_grid_pos = <<3, 20>> THEN {<<>>, << <<4, 20>>, <<5, 20>> >>} ELSE {<<>>}

\* the Status as sent: the fields the loop reads (lines 292-296) and the
\* detected_obstacles field (the_sequel_bot.py:552)
Reported(msg, detected) ==
    [type |-> msg.type, robot_grid_pos |-> msg.robot_grid_pos,
     goal_grid_pos |-> msg.goal_grid_pos, theta_deg |-> msg.theta_deg,
     detected_obstacles |-> detected]

\* globals written back with the reported obstacles marked in the grid
SetGlobalsAndObstacle(G) ==
    /\ current_robot_grid_pos_actual' = G.current_robot_grid_pos_actual
    /\ current_robot_grid_pos_path' = G.current_robot_grid_pos_path
    /\ goal_grid_pos' = G.goal_grid_pos
    /\ planned_path' = G.planned_path
    /\ current_path_index' = G.current_path_index
    /\ path_needs_replan' = G.path_needs_replan
    /\ last_replan_time' = G.last_replan_time
    /\ grid_writes' = grid_writes \cup
                          {<<webots_data'.detected_obstacles[i], 1>> :
                              i \in 1..Len(webots_data'.detected_obstacles)}

\* the globals after a Status; nothing in lines 285-419 assigns to grid_map
\* or to an element of it
SetGlobals(G) ==
    /\ grid_writes' = grid_writes
    /\ current_robot_grid_pos_actual' = G.current_robot_grid_pos_actual
    /\ current_robot_grid_pos_path' = G.current_robot_grid_pos_path
    /\ goal_grid_pos' = G.goal_grid_pos
    /\ planned_path' = G.planned_path
    /\ current_path_index' = G.current_path_index
    /\ path_needs_replan' = G.path_needs_replan
    /\ last_replan_time' = G.last_replan_time

(***************************************************************************)
(* SpecPlan: the main loop of the planning side on the shipped grid_map.   *)
(* One step is an accept, a recv, or the handling of one msg_part of the   *)
(* data just received.                                                     *)
(***************************************************************************)
Statuses ==
    [type : {"webots_status"}, robot_grid_pos : Positions, goal_grid_pos : Goals,
     theta_deg : Thetas]

\* Dijkstra.py:42-49 and :246
InitPlan ==
    /\ conn = FALSE
    /\ grid_writes = {}
    /\ current_time_ms = 0
    /\ current_robot_grid_pos_actual = None
    /\ current_robot_grid_pos_path = None
    /\ goal_grid_pos = None
    /\ planned_path = <<>>
    /\ current_path_index = 0
    /\ path_needs_replan = TRUE
    /\ last_replan_time = 0
    /\ pending = 0
    /\ event = "start"
    /\ webots_data = None
    /\ planner_called = FALSE
    /\ command_to_webots = None
    /\ sent = FALSE
    /\ first_status_due = FALSE
    /\ path_held_before = FALSE
    /\ deviation_alone = FALSE
    /\ branches_taken = {}

\* Dijkstra.py:250: the clock read at the top of an iteration
ReadClock ==
    /\ current_time_ms' \in {current_time_ms, current_time_ms + REPLAN_INTERVAL_MS}
    /\ current_time_ms' <= MaxTicks * REPLAN_INTERVAL_MS

Observe(e) ==
    /\ event' = e
    /\ webots_data' = None
    /\ planner_called' = FALSE
    /\ command_to_webots' = None
    /\ sent' = FALSE
    /\ path_held_before' = (planned_path # <<>>)
    /\ deviation_alone' = FALSE
    /\ branches_taken' = {}

\* Dijkstra.py:252-261: a client is accepted
AcceptOk ==
    /\ ~conn /\ pending = 0
    /\ ReadClock
    /\ conn' = TRUE
    /\ path_needs_replan' = TRUE
    /\ Observe("accept")
    /\ UNCHANGED <<current_robot_grid_pos_actual, current_robot_grid_pos_path, goal_grid_pos,
                   planned_path, current_path_index, last_replan_time, grid_writes, pending>>
    /\ UNCHANGED not_plan
    /\ first_status_due' = TRUE

\* Dijkstra.py:262-274: accept times out or fails
AcceptFail ==
    /\ ~conn /\ pending = 0
    /\ ReadClock
    /\ Observe("accept_failed")
    /\ UNCHANGED <<conn, belief, pending>>
    /\ UNCHANGED not_plan
    /\ UNCHANGED first_status_due

\* Dijkstra.py:279-285: recv returns data holding n msg_parts
RecvData ==
    /\ conn /\ pending = 0
    /\ ReadClock
    /\ pending' \in 1..MaxBatch
    /\ Observe("recv")
    /\ UNCHANGED <<conn, belief>>
    /\ UNCHANGED not_plan
    /\ UNCHANGED first_status_due

\* a disconnect that forgets the goal too (line 433 left in)
RecvEmptyForgetsGoal ==
    /\ conn /\ pending = 0
    /\ ReadClock
    /\ conn' = FALSE
    /\ current_robot_grid_pos_actual' = None
    /\ current_robot_grid_pos_path' = None
    /\ goal_grid_pos' = None
    /\ planned_path' = <<>>
    /\ path_needs_replan' = TRUE
    /\ Observe("empty_read")
    /\ UNCHANGED <<current_path_index, last_replan_time, grid_writes, pending>>
    /\ UNCHANGED first_status_due
    /\ UNCHANGED not_plan

\* Dijkstra.py:425-435: recv returns no bytes
RecvEmpty ==
    /\ conn /\ pending = 0
    /\ ReadClock
    /\ conn' = FALSE
    /\ current_robot_grid_pos_actual' = None
    /\ current_robot_grid_pos_path' = None
    /\ planned_path' = <<>>
    /\ path_needs_replan' = TRUE
    /\ Observe("empty_read")
    /\ UNCHANGED <<goal_grid_pos, current_path_index, last_replan_time, grid_writes, pending>>
    /\ UNCHANGED not_plan
    /\ UNCHANGED first_status_due

\* Dijkstra.py:438-440: recv times out
RecvTimeout ==
    /\ conn /\ pending = 0
    /\ ReadClock
    /\ Observe("recv_timeout")
    /\ UNCHANGED <<conn, belief, pending>>
    /\ UNCHANGED not_plan
    /\ UNCHANGED first_status_due

\* Dijkstra.py:441-445: ECONNRESET
RecvReset ==
    /\ conn /\ pending = 0
    /\ ReadClock
    /\ conn' = FALSE
    /\ Observe("reset")
    /\ UNCHANGED <<belief, pending>>
    /\ UNCHANGED not_plan
    /\ UNCHANGED first_status_due

\* Dijkstra.py:446-450: another OSError
RecvOSError ==
    /\ conn /\ pending = 0
    /\ ReadClock
    /\ conn' = FALSE
    /\ Observe("os_error")
    /\ UNCHANGED <<belief, pending>>
    /\ UNCHANGED not_plan
    /\ UNCHANGED first_status_due

\* Dijkstra.py:451-456: any other exception of the receive block
RecvException ==
    /\ conn /\ pending = 0
    /\ ReadClock
    /\ conn' = FALSE
    /\ Observe("exception")
    /\ UNCHANGED <<belief, pending>>
    /\ UNCHANGED not_plan
    /\ UNCHANGED first_status_due

\* the position a Status reports is more than one row or one column away
\* from the position held on the path
FarFromPath(robot_grid_pos) ==
    /\ current_robot_grid_pos_path # None
    /\ \/ Abs(robot_grid_pos[1] - current_robot_grid_pos_path[1]) > 1
       \/ Abs(robot_grid_pos[2] - current_robot_grid_pos_path[2]) > 1

\* the interval trigger of line 326
IntervalElapsed == current_time_ms - last_replan_time > REPLAN_INTERVAL_MS

\* the triggers of lines 299-326 that hold as a Status arrives
TriggersOf(msg) ==
    {t \in {"flag", "goal", "interval", "far", "moved"} :
        \/ t = "flag" /\ path_needs_replan
        \/ t = "goal" /\ msg.goal_grid_pos # goal_grid_pos
        \/ t = "interval" /\ IntervalElapsed
        \/ t = "far" /\ FarFromPath(msg.robot_grid_pos)
        \/ t = "moved" /\ msg.robot_grid_pos # current_robot_grid_pos_actual}

\* what becomes of the Command at conn.sendall, line 419: it is delivered;
\* or sendall raises and line 423 catches the exception, the for loop going
\* on; or, under a json module that has no JSONDecodeError (MicroPython's),
\* naming json.JSONDecodeError in the except clause of line 421 raises
\* AttributeError, which leaves the for loop and is caught at line 451,
\* where conn is closed
SendOutcomes == {"delivered", "raised", "raised_uncaught"}

\* Dijkstra.py:285-424: a msg_part that is a webots_status
StatusMessage ==
    /\ pending > 0
    /\ \E msg \in Statuses, rounding \in Roundings :
       \E G1 \in {UpdateActual(Globals, msg.robot_grid_pos)} :
       \E G2 \in {UpdateGoal(G1, msg.robot_grid_pos, msg.goal_grid_pos)} :
       \E G3 \in {Replan(G2, current_time_ms)} :
       \E R1 \in {DetermineAction(G3, msg.theta_deg, rounding)} :
       \E R \in {GoalReached(R1)}, detected \in ObstacleReports(msg.robot_grid_pos) :
         /\ webots_data' = Reported(msg, detected)
         /\ SetGlobals(R.G)
         /\ event' = "status"
         /\ planner_called' = (ReplanDue(G2, current_time_ms) /\ CanPlan(G2))
         /\ command_to_webots' = BuildCommand(R)
         /\ deviation_alone' = (TriggersOf(msg) = {"far", "moved"})
         /\ branches_taken' = ResyncBranch(G2, current_time_ms) \cup RealignBranch(G3)
    /\ \E outcome \in SendOutcomes :
         /\ sent' = (outcome = "delivered")
         /\ pending' = IF outcome = "raised_uncaught" THEN 0 ELSE pending - 1
         /\ conn' = (outcome # "raised_uncaught")
    /\ path_held_before' = (planned_path # <<>>)
    /\ UNCHANGED current_time_ms
    /\ UNCHANGED not_plan
    /\ first_status_due' = FALSE

\* Dijkstra.py:288-291: a msg_part that parses but is no webots_status
OtherMessage ==
    /\ pending > 0
    /\ pending' = pending - 1
    /\ Observe("other")
    /\ UNCHANGED <<conn, current_time_ms, belief>>
    /\ UNCHANGED not_plan
    /\ UNCHANGED first_status_due

\* Dijkstra.py:421-424: a msg_part that does not parse
MalformedLine ==
    /\ pending > 0
    /\ pending' = pending - 1
    /\ Observe("malformed")
    /\ UNCHANGED <<conn, current_time_ms, belief>>
    /\ UNCHANGED not_plan
    /\ UNCHANGED first_status_due

\* Dijkstra.py:421 and 451-456 under a json module that has no
\* JSONDecodeError (MicroPython's): json.loads raises ValueError, naming
\* json.JSONDecodeError in the except clause raises AttributeError, which
\* leaves the for loop and is caught at line 451, where conn is closed; the
\* msg_parts left of the read are never handled
MalformedLineUncaught ==
    /\ pending > 0
    /\ pending' = 0
    /\ conn' = FALSE
    /\ Observe("malformed_uncaught")
    /\ UNCHANGED <<current_time_ms, belief>>
    /\ UNCHANGED not_plan
    /\ UNCHANGED first_status_due

NextPlan ==
    \/ AcceptOk \/ AcceptFail
    \/ RecvData \/ RecvEmpty \/ RecvTimeout \/ RecvReset \/ RecvOSError \/ RecvException
    \/ StatusMessage \/ OtherMessage \/ MalformedLine \/ MalformedLineUncaught




(***************************************************************************)
(* Claims about the planning loop                                          *)
(***************************************************************************)
\* the step just taken handled a Status
StatusStep == pending' < pending /\ event' = "status"

\* C1 as stated: with a non-empty Path and the cursor at i, i + 1 < len(Path),
\* a Status reporting Path[i + 1] with the goal unchanged and no replan moves
\* the cursor to i + 1 and path_grid_pos to Path[i + 1].
C1_ArrivalAdvancesCursor ==
    [][ ( /\ StatusStep
          /\ planned_path # <<>>
          /\ current_path_index + 1 < Len(planned_path)
          /\ webots_data'.robot_grid_pos = planned_path[current_path_index + 2]
          /\ webots_data'.goal_grid_pos = goal_grid_pos
          /\ ~planner_called' )
        => ( /\ current_path_index' = current_path_index + 1
             /\ current_robot_grid_pos_path' = planned_path[current_path_index + 2] ) ]_vars

\* C2: the cursor moves forward along an unchanged Path only while a Status
\* is handled whose robot_grid_pos is Path[cursor + 1] for the cursor held
\* before it; no other step moves it forward.
C2_NoSpeculativeAdvance ==
    [][ ( /\ planned_path # <<>>
          /\ planned_path' = planned_path
          /\ current_path_index' > current_path_index )
        => ( /\ StatusStep
             /\ current_path_index + 1 < Len(planned_path)
             /\ webots_data'.robot_grid_pos = planned_path[current_path_index + 2] ) ]_vars

\* a Status was handled without a replan, the path kept, forward commanded
\* with the robot on its believed cell: the case a speculative advance takes
C2_Witness ==
    /\ event = "status" /\ ~planner_called
    /\ planned_path # <<>>
    /\ command_to_webots.action = "forward"
    /\ current_robot_grid_pos_actual = current_robot_grid_pos_path
    /\ current_path_index < Len(planned_path) - 1

\* C4: a Status whose robot_grid_pos is its goal_grid_pos is answered by a
\* Command with action "stop" and an empty path, whatever was held before.
C4_AtGoalStopsWithEmptyPath ==
    ( /\ event = "status"
      /\ webots_data.robot_grid_pos = webots_data.goal_grid_pos )
    => ( /\ command_to_webots.action = "stop"
         /\ command_to_webots.path = <<>>
         /\ planned_path = <<>> )

\* the planner ran for that Status and found a path, which was then dropped,
\* and the Command went out
C4_Witness ==
    /\ event = "status" /\ sent
    /\ webots_data.robot_grid_pos = webots_data.goal_grid_pos
    /\ planner_called
    /\ PlannedPaths[webots_data.robot_grid_pos, webots_data.goal_grid_pos] # <<>>
    /\ command_to_webots.action = "stop" /\ command_to_webots.path = <<>>

\* C5: a zero-byte read clears actual_grid_pos, path_grid_pos and Path and
\* keeps goal_grid_pos; the first Status handled after the next accepted
\* connection has the planner called before its Command is built.
C5_EmptyReadThenForcedReplan ==
    [][ /\ (conn /\ ~conn' /\ event' = "empty_read") =>
              /\ current_robot_grid_pos_actual' = None
              /\ current_robot_grid_pos_path' = None
              /\ planned_path' = <<>>
              /\ goal_grid_pos' = goal_grid_pos
        /\ (StatusStep /\ first_status_due) => planner_called' ]_vars

\* a session that had a goal ended by an empty read (only that leaves the
\* goal known and the positions unknown) and the next client was accepted:
\* its first Status is the next message handled
C5_Witness ==
    /\ conn /\ event = "accept" /\ first_status_due
    /\ goal_grid_pos # None
    /\ current_robot_grid_pos_actual = None
    /\ current_robot_grid_pos_path = None
    /\ planned_path = <<>>

\* C11 as stated: a replan attempt that returns the empty Path leaves Path,
\* cursor and path_grid_pos as they were before the attempt and sets the
\* needs-replan flag.
C11_EmptyPlanKeepsPath ==
    [][ ( /\ StatusStep /\ planner_called'
          /\ PlannedPaths[current_robot_grid_pos_actual', goal_grid_pos'] = <<>> )
        => ( /\ planned_path' = planned_path
             /\ current_path_index' = current_path_index
             /\ current_robot_grid_pos_path' =
                    IF current_robot_grid_pos_path = None
                    THEN webots_data'.robot_grid_pos ELSE current_robot_grid_pos_path
             /\ path_needs_replan' ) ]_vars

\* C11 as amended: a replan attempt that returns the empty Path empties the
\* held Path; cursor and path_grid_pos keep the values they had before the
\* attempt; the needs-replan flag is left set, except that a Status whose
\* position is its goal has the flag cleared again by the goal-reached step.
C11_EmptyPlanClearsPath ==
    [][ ( /\ StatusStep /\ planner_called'
          /\ PlannedPaths[current_robot_grid_pos_actual', goal_grid_pos'] = <<>> )
        => ( /\ planned_path' = <<>>
             /\ current_path_index' = current_path_index
             /\ current_robot_grid_pos_path' =
                    IF current_robot_grid_pos_path = None
                    THEN webots_data'.robot_grid_pos ELSE current_robot_grid_pos_path
             /\ path_needs_replan' =
                    (current_robot_grid_pos_actual' # goal_grid_pos') ) ]_vars

\* a path was held, the planner was tried for this Status and found no route
C11_Witness ==
    /\ event = "status" /\ planner_called /\ path_held_before
    /\ PlannedPaths[current_robot_grid_pos_actual, goal_grid_pos] = <<>>
    /\ planned_path = <<>>
    /\ path_needs_replan

\* C13: on the shipped grid the first Status of a session, reporting (3,20)
\* with goal (14,4) and the heading of the first path step (downwards, 90
\* degrees), has the planner called, leaves a Path from (3,20) to (14,4) and
\* is answered by a Command with action "forward" carrying that Path.
C13_FirstStatusPlansAndGoesForward ==
    [][ ( /\ StatusStep /\ first_status_due
          /\ webots_data'.robot_grid_pos = <<3, 20>>
          /\ webots_data'.goal_grid_pos = <<14, 4>>
          /\ webots_data'.theta_deg = 90 )
        => ( /\ planner_called'
             /\ planned_path' # <<>>
             /\ planned_path'[1] = <<3, 20>>
             /\ planned_path'[2] = <<4, 20>>
             /\ planned_path'[Len(planned_path')] = <<14, 4>>
             /\ IsRoute(grid_map, planned_path')
             /\ current_path_index' = 0
             /\ command_to_webots'.action = "forward"
             /\ command_to_webots'.path = planned_path' ) ]_vars

\* the very first Status the planning side ever handled was that one, and its
\* Command went out
C13_Witness ==
    /\ event = "status" /\ sent /\ planner_called /\ ~path_held_before
    /\ webots_data.robot_grid_pos = <<3, 20>>
    /\ webots_data.goal_grid_pos = <<14, 4>>
    /\ webots_data.theta_deg = 90
    /\ last_replan_time = current_time_ms
    /\ Len(planned_path) = 28
    /\ command_to_webots.action = "forward"

\* C17 as stated, planning side: a step that meets a msg_part that is not
\* valid JSON changes none of the planning state, leaves the other msg_parts
\* of the read to be handled and keeps the connection.
C17_MalformedLineOnlyDiscarded ==
    [][event' \in {"malformed", "malformed_uncaught"}
       => (UNCHANGED belief /\ pending' = pending - 1 /\ conn' = conn)]_vars

\* C19 as stated: a step that handles a Status calls the planner if, as the
\* Status arrives, the flag is set, or its goal differs from the stored one,
\* or more than REPLAN_INTERVAL_MS passed since the last successful replan,
\* or its position is more than 1 away from the path position in row or in
\* column; with none of these (a position within 1 in both included) the
\* planner is not called.
C19_TriggersInvokePlanner ==
    [][StatusStep
       => (planner_called' <=>
             \/ path_needs_replan
             \/ webots_data'.goal_grid_pos # goal_grid_pos
             \/ IntervalElapsed
             \/ FarFromPath(webots_data'.robot_grid_pos))]_vars

\* C19 amended: the distance from the path position counts only in a
\* Status whose position differs from the stored actual position.
C19_DeviationCountsOnMove ==
    [][StatusStep
       => (planner_called' <=>
             \/ path_needs_replan
             \/ webots_data'.goal_grid_pos # goal_grid_pos
             \/ IntervalElapsed
             \/ /\ webots_data'.robot_grid_pos # current_robot_grid_pos_actual
                /\ FarFromPath(webots_data'.robot_grid_pos))]_vars

\* a Status whose position moved far from the path position, with no other
\* trigger, had the planner called
C19_Witness ==
    /\ event = "status" /\ planner_called
    /\ deviation_alone

\* C20 as stated: once a Status whose position is the goal has been handled
\* (the stored actual position is the stored goal), a later Status with the
\* same goal does not call the planner and leaves the path empty.
C20_TerminalAfterGoal ==
    [][(/\ StatusStep
        /\ current_robot_grid_pos_actual # None
        /\ current_robot_grid_pos_actual = goal_grid_pos
        /\ webots_data'.goal_grid_pos = goal_grid_pos)
       => (~planner_called' /\ planned_path' = <<>>)]_vars

\* the stored start and goal are a pair dijkstra rejects (lines 81-86)
RejectedPair ==
    /\ current_robot_grid_pos_actual # None
    /\ goal_grid_pos # None
    /\ \/ ~IsValidNode(grid_map, current_robot_grid_pos_actual)
       \/ ~IsValidNode(grid_map, goal_grid_pos)

\* C21 as stated: when the Status just handled had the planner called with
\* a start or goal it rejects, a Status that repeats the same position and
\* goal does not have the planner called again.
C21_RejectedPairNotRetried ==
    [][(/\ event = "status" /\ planner_called /\ RejectedPair
        /\ StatusStep
        /\ webots_data'.robot_grid_pos = current_robot_grid_pos_actual
        /\ webots_data'.goal_grid_pos = goal_grid_pos)
       => ~planner_called']_vars

\* C29: whenever the planned path is not empty the cursor points into it:
\* 0 <= current_path_index < len(planned_path), after every Status, replan
\* (successful or failed), change of goal, arrival at the goal and
\* disconnect.
C29_CursorWithinPath ==
    planned_path # <<>> =>
        0 <= current_path_index /\ current_path_index < Len(planned_path)

\* a Status from a robot that has left the first cell of a path that was
\* held before the Status and is still in use
C29_Witness ==
    /\ event = "status"
    /\ Len(planned_path) >= 3
    /\ path_held_before
    /\ current_robot_grid_pos_actual # planned_path[1]
    /\ current_path_index = 0

\* C31 as stated: every Status handled is answered by a Command, and no
\* other step of the loop sends one.
C31_EveryStatusAnswered ==
    [][ (StatusStep => sent') /\ (sent' => StatusStep) ]_vars

\* C31 as amended: every Status handled is followed, before the next message
\* is looked at, by one call of conn.sendall with one Command, built from the
\* globals as they are after the belief update, replan, action derivation
\* and goal check of that Status; no other step of the loop builds or sends
\* a Command; a call of sendall that raises delivers nothing and is not
\* repeated.
C31_OneSendPerStatus ==
    [][ /\ StatusStep =>
            /\ command_to_webots'.type = "esp32_command"
            /\ command_to_webots'.action \in {"forward", "turn_left", "turn_right", "stop"}
            /\ command_to_webots'.path = planned_path'
            /\ command_to_webots'.robot_pos_on_path_esp_thinks = current_robot_grid_pos_path'
            /\ command_to_webots'.current_path_idx_esp = current_path_index'
            /\ current_robot_grid_pos_actual' = webots_data'.robot_grid_pos
            /\ goal_grid_pos' = webots_data'.goal_grid_pos
        /\ ~StatusStep => (command_to_webots' = None /\ ~sent') ]_vars

\* a Status that made the planner run and adopt a path is answered with that
\* path, and the Command is delivered
C31_Witness ==
    /\ event = "status" /\ sent /\ planner_called
    /\ command_to_webots.path # <<>>
    /\ command_to_webots.path = planned_path
    /\ command_to_webots.action = "forward"

\* C32: in every state in which a Status can be handled, for every Status:
\* handling it and then handling it again - at the same clock reading, or at
\* a later one at which the replan interval has not elapsed - leaves the
\* globals (path, cursor, both positions, goal, flag, last replan time) as
\* they were after the first handling, and builds the same Command.  The
\* globals and the clock met with several messages left of a read are met
\* with one message left as well (a message that is no Status changes
\* neither), so the states with one message left stand for all.
C32_DuplicateStatusIdempotent ==
    (conn /\ pending = 1) =>
        \A msg \in Statuses, rounding \in Roundings :
            LET first == ProcessStatus(Globals, msg, current_time_ms, rounding)
            IN  \A later \in {current_time_ms, current_time_ms + REPLAN_INTERVAL_MS} :
                    (later = current_time_ms
                        \/ later - first.G.last_replan_time <= REPLAN_INTERVAL_MS)
                    => ProcessStatus(first.G, msg, later, rounding) = first

\* a Status has just been handled and a route is held; the next message of
\* the same read is still to be handled, and handling the same Status again
\* one clock step later would change nothing
C32_Witness ==
    /\ conn /\ pending = 1 /\ event = "status" /\ sent
    /\ planned_path # <<>>
    /\ current_time_ms + REPLAN_INTERVAL_MS - last_replan_time <= REPLAN_INTERVAL_MS
    /\ ProcessStatus(Globals, webots_data, current_time_ms + REPLAN_INTERVAL_MS, 0)
           = [G |-> Globals, command |-> command_to_webots]

\* C33: no step of the planning loop assigns to the grid: it is the shipped
\* grid_map in every state, also after a Status whose detected_obstacles is
\* not empty; and the path adopted by a Status that plans is the planner's
\* path on the shipped grid for the position and goal of that Status, with
\* or without obstacles reported (or no path, once the goal check has
\* cleared it).
C33_GridNeverModified ==
    [][ /\ grid_writes' = grid_writes /\ grid_writes' = {}
        /\ (StatusStep /\ planner_called') =>
              \/ planned_path' = PlannedPaths[current_robot_grid_pos_actual',
                                              goal_grid_pos']
              \/ /\ planned_path' = <<>>
                 /\ current_robot_grid_pos_actual' = goal_grid_pos' ]_vars

\* a Status that reports obstacles on the very route it makes the planner
\* adopt
C33_Witness ==
    /\ event = "status" /\ planner_called
    /\ webots_data.detected_obstacles # <<>>
    /\ Len(planned_path) >= 3
    /\ planned_path[2] = webots_data.detected_obstacles[1]
    /\ grid_writes = {}

C18_DisconnectResetsSession ==
    [][(conn /\ ~conn')
       => (/\ current_robot_grid_pos_actual' = None
           /\ current_robot_grid_pos_path' = None
           /\ planned_path' = <<>>
           /\ goal_grid_pos' = goal_grid_pos)]_vars

(***************************************************************************)
(* The motion side (the_sequel_bot.py).  Times are tenths of a second,     *)
(* wheel speeds thousandths of the source's unit.                          *)
(***************************************************************************)
\* the_sequel_bot.py:47
FORWARD_SPEED == 1500
\* the_sequel_bot.py:56, in tenths
TURN_SPEED_FACTOR == 15
\* the_sequel_bot.py:57-59
MIN_INITIAL_SPIN_DURATION == 6
MAX_SEARCH_SPIN_DURATION == 189
MAX_ADJUST_DURATION == 22
\* the_sequel_bot.py:60-65
TURN_ADJUST_BASE_SPEED == (FORWARD_SPEED * 8) \div 10
TURN_UNTIL_LINE_FOUND == TRUE
AGGRESSIVE_CORRECTION_DIFFERENTIAL == (FORWARD_SPEED * 13) \div 10
MODERATE_CORRECTION_DIFFERENTIAL == (FORWARD_SPEED * 12) \div 10
\* the_sequel_bot.py:533 and :542, in tenths of a second
RECONNECT_INTERVAL == 30
SEND_INTERVAL == 1

TurnCommands == {"turn_left", "turn_right"}
\* Python's None where the other values are command strings
NoCommand == "None"

\* any(line_sensors)
AnyLine(line_sensors) == line_sensors[1] = 1 \/ line_sensors[2] = 1 \/ line_sensors[3] = 1

\* the_sequel_bot.py:289-297; the factors are in tenths
calculate_turn_speeds(T, inner_factor, outer_factor) ==
    LET inner_speed == -((FORWARD_SPEED * TURN_SPEED_FACTOR * inner_factor) \div 100)
        outer_speed == (FORWARD_SPEED * TURN_SPEED_FACTOR * outer_factor) \div 100
    IN  IF T.active_command = "turn_left"
        THEN <<inner_speed, outer_speed>>
        ELSE <<outer_speed, inner_speed>>

\* a start that only an idle controller accepts
initiate_turn_when_idle(T, turn_direction, now) ==
    IF T.current_phase = "NONE"
    THEN [T EXCEPT !.active_command = turn_direction,
                   !.current_phase = "INITIATE_SPIN",
                   !.phase_start_time = now]
    ELSE T

\* the_sequel_bot.py:200-207
initiate_turn(T, turn_direction, now) ==
    IF T.active_command # turn_direction \/ T.current_phase = "NONE"
    THEN [T EXCEPT !.active_command = turn_direction,
                   !.current_phase = "INITIATE_SPIN",
                   !.phase_start_time = now]
    ELSE T

\* the_sequel_bot.py:303-306
reset(T) == [T EXCEPT !.current_phase = "NONE", !.active_command = NoCommand]

\* a spin that ends as soon as the minimum duration is reached
spin_at_least(T, now) ==
    [T |-> IF now - T.phase_start_time >= MIN_INITIAL_SPIN_DURATION
           THEN [T EXCEPT !.current_phase = "SEARCHING_LINE", !.phase_start_time = now]
           ELSE T,
     speeds |-> calculate_turn_speeds(T, 8, 11)]

\* a spin that hands over to the adjustment at once
spin_then_adjust(T, now) ==
    [T |-> IF now - T.phase_start_time > MIN_INITIAL_SPIN_DURATION
           THEN [T EXCEPT !.current_phase = "ADJUSTING_ON_LINE", !.phase_start_time = now]
           ELSE T,
     speeds |-> calculate_turn_speeds(T, 8, 11)]

\* the_sequel_bot.py:223-231
execute_initial_spin(T, now) ==
    [T |-> IF now - T.phase_start_time > MIN_INITIAL_SPIN_DURATION
           THEN [T EXCEPT !.current_phase = "SEARCHING_LINE", !.phase_start_time = now]
           ELSE T,
     speeds |-> calculate_turn_speeds(T, 8, 11)]

\* a search that gives up after the maximum duration under either policy
line_search_bounded(T, line_sensors, now, until_line_found) ==
    IF AnyLine(line_sensors)
    THEN [T |-> [T EXCEPT !.current_phase = "ADJUSTING_ON_LINE", !.phase_start_time = now],
          speeds |-> calculate_turn_speeds(T, 5, 9)]
    ELSE IF now - T.phase_start_time > MAX_SEARCH_SPIN_DURATION
         THEN [T |-> [T EXCEPT !.current_phase = "NONE"], speeds |-> <<0, 0>>]
         ELSE [T |-> T, speeds |-> calculate_turn_speeds(T, 5, 9)]

\* the_sequel_bot.py:233-245 in a module whose TURN_UNTIL_LINE_FOUND is
\* until_line_found
line_search(T, line_sensors, now, until_line_found) ==
    IF AnyLine(line_sensors)
    THEN [T |-> [T EXCEPT !.current_phase = "ADJUSTING_ON_LINE", !.phase_start_time = now],
          speeds |-> calculate_turn_speeds(T, 5, 9)]
    ELSE IF ~until_line_found /\ now - T.phase_start_time > MAX_SEARCH_SPIN_DURATION
         THEN [T |-> [T EXCEPT !.current_phase = "NONE"], speeds |-> <<0, 0>>]
         ELSE [T |-> T, speeds |-> calculate_turn_speeds(T, 5, 9)]

\* the_sequel_bot.py:233-245 as shipped (line 61)
execute_line_search(T, line_sensors, now) ==
    line_search(T, line_sensors, now, TURN_UNTIL_LINE_FOUND)

\* an adjustment that looks at the center sensor only
adjust_by_center(T, line_sensors, now) ==
    IF line_sensors[2] = 1
    THEN [T |-> reset(T), speeds |-> <<0, 0>>]
    ELSE [T |-> [T EXCEPT !.current_phase = "SEARCHING_LINE", !.phase_start_time = now],
          speeds |-> <<0, 0>>]

\* the_sequel_bot.py:247-287.  Every branch of the pattern dispatch of lines
\* 257-281 returns, so the timeout test of lines 284-287 is never reached.
execute_line_adjustment(T, line_sensors, now) ==
    LET left_sensor     == line_sensors[1] = 1
        center_sensor   == line_sensors[2] = 1
        right_sensor    == line_sensors[3] = 1
        base_speed      == TURN_ADJUST_BASE_SPEED
        moderate_diff   == (MODERATE_CORRECTION_DIFFERENTIAL * base_speed) \div FORWARD_SPEED
        aggressive_diff == (AGGRESSIVE_CORRECTION_DIFFERENTIAL * base_speed) \div FORWARD_SPEED
    IN  IF ~left_sensor /\ center_sensor /\ ~right_sensor
        THEN [T |-> reset(T),
              speeds |-> <<(base_speed * 3) \div 10, (base_speed * 3) \div 10>>]
        ELSE IF left_sensor /\ center_sensor /\ ~right_sensor
        THEN [T |-> T, speeds |-> <<base_speed - moderate_diff, base_speed>>]
        ELSE IF ~left_sensor /\ center_sensor /\ right_sensor
        THEN [T |-> T, speeds |-> <<base_speed, base_speed - moderate_diff>>]
        ELSE IF left_sensor /\ ~center_sensor /\ ~right_sensor
        THEN [T |-> T, speeds |-> <<base_speed - aggressive_diff, base_speed>>]
        ELSE IF ~left_sensor /\ ~center_sensor /\ right_sensor
        THEN [T |-> T, speeds |-> <<base_speed, base_speed - aggressive_diff>>]
        ELSE IF ~AnyLine(line_sensors)
        THEN [T |-> [T EXCEPT !.current_phase = "SEARCHING_LINE", !.phase_start_time = now],
              speeds |-> calculate_turn_speeds(T, 5, 9)]
        ELSE [T |-> T, speeds |-> <<(base_speed * 7) \div 10, (base_speed * 7) \div 10>>]

\* the_sequel_bot.py:209-221
execute_turn(T, line_sensors, now) ==
    IF T.current_phase = "INITIATE_SPIN" THEN execute_initial_spin(T, now)
    ELSE IF T.current_phase = "SEARCHING_LINE" THEN execute_line_search(T, line_sensors, now)
    ELSE IF T.current_phase = "ADJUSTING_ON_LINE"
         THEN execute_line_adjustment(T, line_sensors, now)
         ELSE [T |-> T, speeds |-> <<0, 0>>]

\* the_sequel_bot.py:446-466
calculate_line_following_speeds(line_sensors) ==
    LET left_sensor   == line_sensors[1] = 1
        center_sensor == line_sensors[2] = 1
        right_sensor  == line_sensors[3] = 1
        base_speed    == FORWARD_SPEED
    IN  IF ~left_sensor /\ center_sensor /\ ~right_sensor
        THEN <<base_speed, base_speed>>
        ELSE IF left_sensor /\ center_sensor /\ ~right_sensor
        THEN <<base_speed - MODERATE_CORRECTION_DIFFERENTIAL, base_speed>>
        ELSE IF ~left_sensor /\ center_sensor /\ right_sensor
        THEN <<base_speed, base_speed - MODERATE_CORRECTION_DIFFERENTIAL>>
        ELSE IF left_sensor /\ ~center_sensor /\ ~right_sensor
        THEN <<base_speed - AGGRESSIVE_CORRECTION_DIFFERENTIAL, base_speed>>
        ELSE IF ~left_sensor /\ ~center_sensor /\ right_sensor
        THEN <<base_speed, base_speed - AGGRESSIVE_CORRECTION_DIFFERENTIAL>>
        ELSE IF left_sensor /\ center_sensor /\ right_sensor
        THEN <<(base_speed * 7) \div 10, (base_speed * 7) \div 10>>
        ELSE IF ~AnyLine(line_sensors)
        THEN <<(base_speed * 2) \div 10, (base_speed * 2) \div 10>>
        ELSE <<(base_speed * 3) \div 10, (base_speed * 3) \div 10>>

\* the_sequel_bot.py:562-576: the esp32_command messages of one receive, in
\* order.  M is [T |-> turn controller, esp32_command |-> ...].
RECURSIVE ReceiveCommands(_, _)
ReceiveCommands(M, actions) ==
    IF actions = <<>> THEN M
    ELSE LET new_command == Head(actions)
             T1 == IF /\ new_command # M.esp32_command
                      /\ M.esp32_command \in TurnCommands
                      /\ new_command \notin TurnCommands
                   THEN reset(M.T) ELSE M.T
         IN  ReceiveCommands([T |-> T1, esp32_command |-> new_command], Tail(actions))

\* an effective command that is the remote one whenever no turn is in
\* progress
EffectiveCommandAsReceived(T, command, sensors) ==
    IF T.current_phase # "NONE"
    THEN IF command = "stop"
         THEN [T |-> reset(T), effective_command |-> "stop"]
         ELSE [T |-> T, effective_command |-> T.active_command]
    ELSE [T |-> T, effective_command |-> command]

\* an effective command that follows a remote turn command during a turn
EffectiveCommandFollowsRemote(T, command, sensors) ==
    IF T.current_phase # "NONE"
    THEN IF command = "stop"
         THEN [T |-> reset(T), effective_command |-> "stop"]
         ELSE IF command \in TurnCommands
              THEN [T |-> T, effective_command |-> command]
              ELSE [T |-> T, effective_command |-> T.active_command]
    ELSE IF AnyLine(sensors) /\ command \notin {"turn_left", "turn_right", "stop"}
         THEN [T |-> T, effective_command |-> "forward"]
         ELSE IF ~AnyLine(sensors) /\ command = "forward"
              THEN [T |-> T, effective_command |-> "turn_left"]
              ELSE [T |-> T, effective_command |-> command]

\* the_sequel_bot.py:578-592: [T |-> ..., effective_command |-> ...]
EffectiveCommand(T, command, sensors) ==
    IF T.current_phase # "NONE"
    THEN IF command = "stop"
         THEN [T |-> reset(T), effective_command |-> "stop"]
         ELSE [T |-> T, effective_command |-> T.active_command]
    ELSE IF AnyLine(sensors) /\ command \notin {"turn_left", "turn_right", "stop"}
         THEN [T |-> T, effective_command |-> "forward"]
         ELSE IF ~AnyLine(sensors) /\ command = "forward"
              THEN [T |-> T, effective_command |-> "turn_left"]
              ELSE [T |-> T, effective_command |-> command]

\* the_sequel_bot.py:594-604: [T, speeds, phase_run]; phase_run is the phase
\* execute_turn was called in, "not_run" when it was not called
ExecuteMovement(T, effective, sensors, now) ==
    IF effective = "stop"
    THEN [T |-> reset(T), speeds |-> <<0, 0>>, phase_run |-> "not_run"]
    ELSE IF effective = "forward"
    THEN [T |-> reset(T), speeds |-> calculate_line_following_speeds(sensors),
          phase_run |-> "not_run"]
    ELSE IF effective \in TurnCommands
    THEN LET T1 == initiate_turn(T, effective, now)
             X  == execute_turn(T1, sensors, now)
         IN  [T |-> X.T, speeds |-> X.speeds, phase_run |-> T1.current_phase]
    ELSE [T |-> T, speeds |-> <<0, 0>>, phase_run |-> "not_run"]

(***************************************************************************)
(* The ObstacleDetector (the_sequel_bot.py:119-189).  A pose is the grid   *)
(* cell world_to_grid gives for it, a heading is in whole degrees.         *)
(***************************************************************************)
INITIAL_GRID_ROW == 3
INITIAL_GRID_COL == 20
DISTANCE_SENSOR_THRESHOLD == 110
OBSTACLE_DETECTION_ENABLED == TRUE
\* the 0.2 s of line 523, in tenths of a second
OBSTACLE_CHECK_INTERVAL == 2

\* lines 157-173
\* the offsets of the facing direction, front, front-left, front-right
SensorOffsets(orientation_deg) ==
    LET theta_degrees == orientation_deg % 360 IN
    IF (-45 <= theta_degrees /\ theta_degrees <= 45)
       \/ (315 <= theta_degrees /\ theta_degrees <= 360)
    THEN << <<0, 1>>, <<-1, 1>>, <<1, 1>> >>
    ELSE IF 45 < theta_degrees /\ theta_degrees <= 135
    THEN << <<1, 0>>, <<1, 1>>, <<1, -1>> >>
    ELSE IF 135 < theta_degrees /\ theta_degrees <= 225
    THEN << <<0, -1>>, <<1, -1>>, <<-1, -1>> >>
    ELSE << <<-1, 0>>, <<-1, -1>>, <<-1, 1>> >>

\* lines 152-173; sensor_index counts from 0 as in the source
calculate_obstacle_position(robot_row, robot_col, orientation_deg, sensor_index) ==
    LET offset == SensorOffsets(orientation_deg)[sensor_index + 1]
    IN  <<robot_row + offset[1], robot_col + offset[2]>>

\* lines 175-178
is_valid_position(position) ==
    /\ 0 <= position[1] /\ position[1] < GRID_ROWS
    /\ 0 <= position[2] /\ position[2] < GRID_COLS

\* a filter that takes every cell for a new one
SeenNever(position, seen) == FALSE

\* line 146
SeenBefore(position, seen) == position \in seen

\* lines 140-148 from sensor_index on: D is [new_obstacles, detected_obstacles]
RECURSIVE CheckSensorsFrom(_, _, _, _, _)
CheckSensorsFrom(D, pose, orientation_deg, distance_values, sensor_index) ==
    IF sensor_index >= Len(distance_values) THEN D
    ELSE
        LET obstacle_position ==
                calculate_obstacle_position(pose[1], pose[2], orientation_deg, sensor_index)
            found == /\ distance_values[sensor_index + 1] > DISTANCE_SENSOR_THRESHOLD
                     /\ is_valid_position(obstacle_position)
                     /\ ~SeenBefore(obstacle_position, D.detected_obstacles)
            D1 == IF found
                  THEN [new_obstacles |-> Append(D.new_obstacles, obstacle_position),
                        detected_obstacles |-> D.detected_obstacles \cup {obstacle_position}]
                  ELSE D
        IN  CheckSensorsFrom(D1, pose, orientation_deg, distance_values, sensor_index + 1)

\* lines 126-150
process_sensor_readings(detected, pose, orientation_deg, distance_values) ==
    IF ~OBSTACLE_DETECTION_ENABLED
    THEN [new_obstacles |-> <<>>, detected_obstacles |-> detected]
    ELSE CheckSensorsFrom([new_obstacles |-> <<>>, detected_obstacles |-> detected],
                          pose, orientation_deg, distance_values, 0)

\* lines 187-189
add_recent_obstacles(recent, obstacles) == recent \o obstacles

\* a read of the list that leaves it as it was
peek_recent_obstacles(recent) == [obstacles |-> recent, recent_obstacles |-> recent]

\* lines 181-185: the list is handed over and cleared
get_recent_obstacles(recent) == [obstacles |-> recent, recent_obstacles |-> <<>>]

CellsOf(obstacle_list) == {obstacle_list[i] : i \in 1..Len(obstacle_list)}

(***************************************************************************)
(* The motion side's control loop.  One action is one iteration of the     *)
(* loop of the_sequel_bot.py:501-626, told apart by where the iteration    *)
(* ends.  What the robot meets in an iteration is drawn from a world W:    *)
(* the ground sensor readings, the commands received, the pose and heading *)
(* odometry arrives at (lines 509-519) and the range readings.             *)
(***************************************************************************)
\* the simulated time between two iterations, in tenths of a second
TickLen == 11
\* the number of iterations explored
MaxMotionTicks == 10
\* the most esp32_command messages one receive delivers
MaxRxBatch == 1
\* the number of iterations explored among obstacles
MaxObstacleTicks == 6

Sensors == {<<l, c, r>> : l \in {0, 1}, c \in {0, 1}, r \in {0, 1}}
Commands == {"forward", "turn_left", "turn_right", "stop"}
\* the actions of the esp32_command messages of one receive; messages of
\* another type and lines that are not JSON change nothing (lines 565, 575)
Batches == UNION {[1..n -> Commands] : n \in 0..MaxRxBatch}

\* the readings of the three obstacle sensors, below and above the threshold
RangeValues == {0, 200}
Ranges == {<<f, l, r>> : f \in RangeValues, l \in RangeValues, r \in RangeValues}
Poses == { <<INITIAL_GRID_ROW, INITIAL_GRID_COL>>, <<INITIAL_GRID_ROW, INITIAL_GRID_COL - 1>> }
Orientations == {0, 90}

\* a track with every line reading and command, and nothing in range
LineWorld ==
    [sensors |-> Sensors, batches |-> Batches,
     poses |-> { <<INITIAL_GRID_ROW, INITIAL_GRID_COL>> }, orientations |-> {90},
     ranges |-> { <<0, 0, 0>> }, ticks |-> MaxMotionTicks]

\* a robot kept on the line by the command stop, among obstacles
ObstacleWorld ==
    [sensors |-> { <<0, 1, 0>> }, batches |-> { <<>> },
     poses |-> Poses, orientations |-> Orientations, ranges |-> Ranges,
     ticks |-> MaxObstacleTicks]

TurnState == [current_phase |-> current_phase, active_command |-> active_command,
              phase_start_time |-> phase_start_time]
SetTurn(T) ==
    /\ current_phase' = T.current_phase
    /\ active_command' = T.active_command
    /\ phase_start_time' = T.phase_start_time

\* the_sequel_bot.py:469-504 and TurnController.__init__, NetworkManager.__init__,
\* ObstacleDetector.__init__
InitMotion ==
    /\ current_time = 0
    /\ is_connected = FALSE
    /\ last_connection_attempt = 0
    /\ last_data_transmission = 0
    /\ esp32_command = "stop"
    /\ current_phase = "NONE"
    /\ active_command = NoCommand
    /\ phase_start_time = 0
    /\ motor_velocity = <<0, 0>>
    /\ tick_event = "init"
    /\ line_detected = <<0, 0, 0>>
    /\ effective_command = NoCommand
    /\ turn_phase_run = "not_run"
    /\ first_without_command = FALSE
    /\ last_obstacle_check = 0
    /\ detected_obstacles = {}
    /\ recent_obstacles = <<>>
    /\ status_built = FALSE
    /\ status_obstacles = <<>>
    /\ reported_before = {}

\* lines 501-507: the step, the clock and the ground sensors
StepAndRead(W, now, sensors) ==
    /\ now <= TickLen * W.ticks
    /\ current_time' = now
    /\ line_detected' = sensors

\* lines 522-529: the detector and the list after the obstacle check
CheckObstacles(now, pose, orientation_deg, distance_values) ==
    IF now - last_obstacle_check > OBSTACLE_CHECK_INTERVAL
    THEN LET P == process_sensor_readings(detected_obstacles, pose, orientation_deg,
                                          distance_values)
         IN  [detected_obstacles |-> P.detected_obstacles,
              recent_obstacles |-> IF P.new_obstacles # <<>>
                                   THEN add_recent_obstacles(recent_obstacles, P.new_obstacles)
                                   ELSE recent_obstacles,
              last_obstacle_check |-> now]
    ELSE [detected_obstacles |-> detected_obstacles,
          recent_obstacles |-> recent_obstacles,
          last_obstacle_check |-> last_obstacle_check]

\* an iteration that builds no webots_status message
NoStatus(O) ==
    /\ detected_obstacles' = O.detected_obstacles
    /\ last_obstacle_check' = O.last_obstacle_check
    /\ recent_obstacles' = O.recent_obstacles
    /\ status_built' = FALSE
    /\ status_obstacles' = <<>>
    /\ reported_before' = reported_before \cup CellsOf(status_obstacles)

\* lines 543-554: navigation_data is built around get_recent_obstacles()
BuildStatus(O) ==
    \E R \in {get_recent_obstacles(O.recent_obstacles)} :
        /\ detected_obstacles' = O.detected_obstacles
        /\ last_obstacle_check' = O.last_obstacle_check
        /\ recent_obstacles' = R.recent_obstacles
        /\ status_built' = TRUE
        /\ status_obstacles' = R.obstacles
        /\ reported_before' = reported_before \cup CellsOf(status_obstacles)

\* lines 531-539, no attempt due: motors zeroed, iteration abandoned
WaitToReconnectIn(W) ==
    /\ ~is_connected
    /\ \E now \in {current_time + TickLen}, sensors \in W.sensors,
          pose \in W.poses, orientation_deg \in W.orientations,
          distance_values \in W.ranges :
        /\ StepAndRead(W, now, sensors)
        /\ NoStatus(CheckObstacles(now, pose, orientation_deg, distance_values))
        /\ ~(now - last_connection_attempt > RECONNECT_INTERVAL)
        /\ motor_velocity' = <<0, 0>>
        /\ tick_event' = "disconnected"
        /\ effective_command' = NoCommand
        /\ turn_phase_run' = "not_run"
        /\ first_without_command' = FALSE
        /\ UNCHANGED <<is_connected, last_connection_attempt, last_data_transmission,
                       esp32_command, turn>>

\* lines 531-539 with establish_connection (318-333) succeeding or failing
ConnectionAttemptIn(W) ==
    /\ ~is_connected
    /\ \E now \in {current_time + TickLen}, sensors \in W.sensors,
          pose \in W.poses, orientation_deg \in W.orientations,
          distance_values \in W.ranges, connected \in BOOLEAN :
        /\ StepAndRead(W, now, sensors)
        /\ NoStatus(CheckObstacles(now, pose, orientation_deg, distance_values))
        /\ now - last_connection_attempt > RECONNECT_INTERVAL
        /\ is_connected' = connected
        /\ last_connection_attempt' = now
        /\ motor_velocity' = <<0, 0>>
        /\ tick_event' = "disconnected"
        /\ effective_command' = NoCommand
        /\ turn_phase_run' = "not_run"
        /\ first_without_command' = FALSE
        /\ UNCHANGED <<last_data_transmission, esp32_command, turn>>

\* lines 541-557 with send_data (335-343) failing: the iteration is abandoned
\* before the motors are set
SendFailedIn(W) ==
    /\ is_connected
    /\ \E now \in {current_time + TickLen}, sensors \in W.sensors,
          pose \in W.poses, orientation_deg \in W.orientations,
          distance_values \in W.ranges :
        /\ StepAndRead(W, now, sensors)
        /\ now - last_data_transmission > SEND_INTERVAL
        /\ BuildStatus(CheckObstacles(now, pose, orientation_deg, distance_values))
        /\ is_connected' = FALSE
        /\ tick_event' = "send_failed"
        /\ effective_command' = NoCommand
        /\ turn_phase_run' = "not_run"
        /\ first_without_command' = FALSE
        /\ UNCHANGED <<last_connection_attempt, last_data_transmission,
                       esp32_command, turn, motor_velocity>>

\* an iteration that falls back to stop when its receive delivers nothing
MoveOnFreshCommand(now, sensors, actions) ==
    \E M \in {ReceiveCommands([T |-> TurnState,
                                esp32_command |-> IF actions = <<>> THEN "stop"
                                                  ELSE esp32_command],
                               actions)} :
    \E E \in {EffectiveCommand(M.T, M.esp32_command, sensors)} :
    \E X \in {ExecuteMovement(E.T, E.effective_command, sensors, now)} :
        /\ esp32_command' = M.esp32_command
        /\ effective_command' = E.effective_command
        /\ SetTurn(X.T)
        /\ motor_velocity' = X.speeds
        /\ turn_phase_run' = X.phase_run
        /\ first_without_command' = (tick_event = "disconnected" /\ actions = <<>>)

\* lines 560-608 for the messages `actions`: fold the commands, derive the
\* effective command, execute it, set the motors
Move(now, sensors, actions) ==
    \E M \in {ReceiveCommands([T |-> TurnState, esp32_command |-> esp32_command],
                               actions)} :
    \E E \in {EffectiveCommand(M.T, M.esp32_command, sensors)} :
    \E X \in {ExecuteMovement(E.T, E.effective_command, sensors, now)} :
        /\ esp32_command' = M.esp32_command
        /\ effective_command' = E.effective_command
        /\ SetTurn(X.T)
        /\ motor_velocity' = X.speeds
        /\ turn_phase_run' = X.phase_run
        /\ first_without_command' = (tick_event = "disconnected" /\ actions = <<>>)

\* lines 541-558 when send_data succeeds or no send is due
SendDone(now, O) ==
    IF now - last_data_transmission > SEND_INTERVAL
    THEN last_data_transmission' = now /\ BuildStatus(O)
    ELSE last_data_transmission' = last_data_transmission /\ NoStatus(O)

\* lines 541-608 with receive_data (345-357) returning: some messages, none
\* (an empty read or socket.timeout)
ReceivedIn(W) ==
    /\ is_connected
    /\ \E now \in {current_time + TickLen}, sensors \in W.sensors,
          pose \in W.poses, orientation_deg \in W.orientations,
          distance_values \in W.ranges, actions \in W.batches :
        /\ StepAndRead(W, now, sensors)
        /\ SendDone(now, CheckObstacles(now, pose, orientation_deg, distance_values))
        /\ Move(now, sensors, actions)
        /\ tick_event' = "moved"
        /\ UNCHANGED <<is_connected, last_connection_attempt>>

\* lines 541-608 with receive_data failing (355-357): is_connected is cleared
\* and the iteration goes on with no message
ReceiveFailedIn(W) ==
    /\ is_connected
    /\ \E now \in {current_time + TickLen}, sensors \in W.sensors,
          pose \in W.poses, orientation_deg \in W.orientations,
          distance_values \in W.ranges :
        /\ StepAndRead(W, now, sensors)
        /\ SendDone(now, CheckObstacles(now, pose, orientation_deg, distance_values))
        /\ is_connected' = FALSE
        /\ Move(now, sensors, <<>>)
        /\ tick_event' = "receive_failed"
        /\ UNCHANGED last_connection_attempt

WaitToReconnect == WaitToReconnectIn(LineWorld) /\ UNCHANGED not_motion
ConnectionAttempt == ConnectionAttemptIn(LineWorld) /\ UNCHANGED not_motion
SendFailed == SendFailedIn(LineWorld) /\ UNCHANGED not_motion
Received == ReceivedIn(LineWorld) /\ UNCHANGED not_motion
ReceiveFailed == ReceiveFailedIn(LineWorld) /\ UNCHANGED not_motion

NextMotion ==
    \/ WaitToReconnect
    \/ ConnectionAttempt
    \/ SendFailed
    \/ Received
    \/ ReceiveFailed

WaitsAmongObstacles == WaitToReconnectIn(ObstacleWorld) /\ UNCHANGED not_motion
ConnectsAmongObstacles == ConnectionAttemptIn(ObstacleWorld) /\ UNCHANGED not_motion
SendFailsAmongObstacles == SendFailedIn(ObstacleWorld) /\ UNCHANGED not_motion
ReceivesAmongObstacles == ReceivedIn(ObstacleWorld) /\ UNCHANGED not_motion
ReceiveFailsAmongObstacles == ReceiveFailedIn(ObstacleWorld) /\ UNCHANGED not_motion

NextObstacles ==
    \/ WaitsAmongObstacles
    \/ ConnectsAmongObstacles
    \/ SendFailsAmongObstacles
    \/ ReceivesAmongObstacles
    \/ ReceiveFailsAmongObstacles

(***************************************************************************)
(* Framing.  Bytes are one-character strings; a message is an opening      *)
(* brace, a payload that tells the messages apart and a closing brace, and *)
(* the sender ends it with a newline (Dijkstra.py:417, the_sequel_bot.py   *)
(* :338).  recv returns any non-empty prefix of the bytes in flight.       *)
(***************************************************************************)
\* the most messages the motion side sends
MaxFrames == 3

Payloads == <<"1", "2", "3", "4">>
NewLine == "\n"

\* json.dumps(data) + '\n' for the i-th message of a sender
Frame(i) == <<"{", Payloads[i], "}", NewLine>>

\* str.strip(): the white space at both ends goes
RECURSIVE Strip(_)
Strip(s) ==
    IF s = <<>> THEN s
    ELSE IF Head(s) = NewLine THEN Strip(Tail(s))
    ELSE IF s[Len(s)] = NewLine THEN Strip(SubSeq(s, 1, Len(s) - 1))
    ELSE s

\* str.split('\n'): the pieces between newlines, empty ones included
RECURSIVE Split(_)
Split(s) ==
    IF \A i \in 1..Len(s) : s[i] # NewLine THEN <<s>>
    ELSE LET k == CHOOSE i \in 1..Len(s) :
                      s[i] = NewLine /\ \A j \in 1..(i - 1) : s[j] # NewLine
         IN  <<SubSeq(s, 1, k - 1)>> \o Split(SubSeq(s, k + 1, Len(s)))

\* json.loads: only a whole message parses
json_loads(msg_part) ==
    IF Len(msg_part) = 3 /\ msg_part[1] = "{" /\ msg_part[3] = "}"
    THEN [ok |-> TRUE, value |-> msg_part[2]]
    ELSE [ok |-> FALSE, value |-> "error"]

\* Dijkstra.py:280-285 and the_sequel_bot.py:349-351: the msg_parts of one
\* read, empty ones skipped; nothing is kept from an earlier read
MsgParts(data) ==
    SelectSeq(Split(Strip(data)), LAMBDA msg_part : Strip(msg_part) # <<>>)

\* the messages a receiver handles from msg_parts, each one json.loads
\* fails on discarded
RECURSIVE HandleParts(_)
HandleParts(msg_parts) ==
    IF msg_parts = <<>> THEN <<>>
    ELSE LET r == json_loads(Head(msg_parts))
         IN  (IF r.ok THEN <<r.value>> ELSE <<>>) \o HandleParts(Tail(msg_parts))

\* the msg_parts up to the first one json.loads fails on
RECURSIVE PartsBeforeError(_)
PartsBeforeError(msg_parts) ==
    IF msg_parts = <<>> \/ ~json_loads(Head(msg_parts)).ok THEN <<>>
    ELSE <<Head(msg_parts)>> \o PartsBeforeError(Tail(msg_parts))

\* the expected order of handling: every message sent, once
Expected(n) == [i \in 1..n |-> Payloads[i]]

InitFraming ==
    /\ to_planner = <<>>
    /\ to_robot = <<>>
    /\ statuses_sent = 0
    /\ statuses_handled = <<>>
    /\ commands_sent = 0
    /\ commands_handled = <<>>
    /\ planner_link = TRUE

\* the_sequel_bot.py:335-340: send_data puts a webots_status on the wire
RobotSends ==
    /\ planner_link
    /\ statuses_sent < MaxFrames
    /\ statuses_sent' = statuses_sent + 1
    /\ to_planner' = to_planner \o Frame(statuses_sent + 1)
    /\ UNCHANGED <<to_robot, statuses_handled, commands_sent, commands_handled,
                   planner_link>>
    /\ UNCHANGED not_framing

\* the bytes the planning side sends for the statuses it handled: one
\* esp32_command each (Dijkstra.py:410-418)
RECURSIVE Replies(_, _)
Replies(first, count) ==
    IF count = 0 THEN <<>> ELSE Frame(first) \o Replies(first + 1, count - 1)

\* Dijkstra.py:278-424: conn.recv returns the first n bytes in flight and
\* every msg_part is handled, a part that does not parse being caught at
\* line 421
PlannerReads ==
    /\ planner_link
    /\ \E n \in 1..Len(to_planner) :
       \E handled \in {HandleParts(MsgParts(SubSeq(to_planner, 1, n)))} :
        /\ to_planner' = SubSeq(to_planner, n + 1, Len(to_planner))
        /\ statuses_handled' = statuses_handled \o handled
        /\ commands_sent' = commands_sent + Len(handled)
        /\ to_robot' = to_robot \o Replies(commands_sent + 1, Len(handled))
    /\ UNCHANGED <<statuses_sent, commands_handled, planner_link>>
    /\ UNCHANGED not_framing

\* Dijkstra.py:278-456 under a json module without JSONDecodeError
\* (MicroPython): naming it at line 421 raises AttributeError, which leaves
\* the for loop and reaches line 451, where conn is closed
PlannerReadsAndCloses ==
    /\ planner_link
    /\ \E n \in 1..Len(to_planner) :
       \E msg_parts \in {MsgParts(SubSeq(to_planner, 1, n))} :
       \E handled \in {HandleParts(PartsBeforeError(msg_parts))} :
        /\ PartsBeforeError(msg_parts) # msg_parts
        /\ to_planner' = <<>>
        /\ statuses_handled' = statuses_handled \o handled
        /\ commands_sent' = commands_sent + Len(handled)
        /\ to_robot' = to_robot \o Replies(commands_sent + 1, Len(handled))
        /\ planner_link' = FALSE
    /\ UNCHANGED <<statuses_sent, commands_handled>>
    /\ UNCHANGED not_framing

\* the_sequel_bot.py:345-351, 560-576: client_socket.recv returns the first
\* n bytes in flight; a message that does not parse is passed over (575)
RobotReads ==
    /\ \E n \in 1..Len(to_robot) :
        /\ to_robot' = SubSeq(to_robot, n + 1, Len(to_robot))
        /\ commands_handled' =
               commands_handled \o HandleParts(MsgParts(SubSeq(to_robot, 1, n)))
    /\ UNCHANGED <<to_planner, statuses_sent, statuses_handled, commands_sent,
                   planner_link>>
    /\ UNCHANGED not_framing

NextFraming ==
    \/ RobotSends
    \/ PlannerReads
    \/ PlannerReadsAndCloses
    \/ RobotReads

(***************************************************************************)
(* One call of initiate_turn or execute_turn on a controller in any state  *)
(* the class can be in: idle (NONE, no active command) or in one of the    *)
(* three phases of a left or a right turn.                                 *)
(***************************************************************************)
\* phase_start_time runs over 0..MaxPhaseStart
MaxPhaseStart == 1

\* the time since the phase started: none, and each of the three durations
\* just reached and just passed
Elapsed ==
    {0, MIN_INITIAL_SPIN_DURATION, MIN_INITIAL_SPIN_DURATION + 1,
     MAX_ADJUST_DURATION, MAX_ADJUST_DURATION + 1,
     MAX_SEARCH_SPIN_DURATION, MAX_SEARCH_SPIN_DURATION + 1}

Controllers ==
    {[current_phase |-> "NONE", active_command |-> NoCommand, phase_start_time |-> t] :
        t \in 0..MaxPhaseStart}
    \cup [current_phase : {"INITIATE_SPIN", "SEARCHING_LINE", "ADJUSTING_ON_LINE"},
          active_command : TurnCommands, phase_start_time : 0..MaxPhaseStart]

\* no call made yet
InitTurn ==
    tc = [pc |-> "idle", method |-> "none",
          T |-> [current_phase |-> "NONE", active_command |-> NoCommand,
                 phase_start_time |-> 0],
          turn_direction |-> "turn_left", line_sensors |-> <<0, 0, 0>>, now |-> 0,
          until_line_found |-> TURN_UNTIL_LINE_FOUND,
          after |-> [current_phase |-> "NONE", active_command |-> NoCommand,
                     phase_start_time |-> 0],
          speeds |-> <<0, 0>>]

\* turn_controller.initiate_turn(turn_direction, current_time) is called
CallInitiateTurn ==
    /\ tc.pc = "idle"
    /\ \E T \in Controllers, turn_direction \in TurnCommands, e \in Elapsed :
          tc' = [tc EXCEPT !.pc = "called", !.method = "initiate_turn", !.T = T,
                           !.turn_direction = turn_direction,
                           !.now = T.phase_start_time + e]
    /\ UNCHANGED not_turn

\* turn_controller.execute_turn(turn_direction, line_sensors, current_time)
\* is called; the loop passes the active command as turn_direction (line 603)
CallExecuteTurn ==
    /\ tc.pc = "idle"
    /\ \E T \in Controllers, line_sensors \in Sensors, e \in Elapsed :
          tc' = [tc EXCEPT !.pc = "called", !.method = "execute_turn", !.T = T,
                           !.turn_direction = T.active_command,
                           !.line_sensors = line_sensors,
                           !.now = T.phase_start_time + e]
    /\ UNCHANGED not_turn

\* execute_turn dispatches to _execute_line_search (line 218), in a module
\* with either setting of TURN_UNTIL_LINE_FOUND
CallLineSearch ==
    /\ tc.pc = "idle"
    /\ \E T \in Controllers, line_sensors \in Sensors, e \in Elapsed,
          until_line_found \in BOOLEAN :
        /\ T.current_phase = "SEARCHING_LINE"
        /\ tc' = [tc EXCEPT !.pc = "called", !.method = "execute_line_search", !.T = T,
                            !.turn_direction = T.active_command,
                            !.line_sensors = line_sensors,
                            !.now = T.phase_start_time + e,
                            !.until_line_found = until_line_found]
    /\ UNCHANGED not_turn

\* the call returns
TurnReturn ==
    /\ tc.pc = "called"
    /\ tc' = IF tc.method = "initiate_turn"
             THEN [tc EXCEPT !.pc = "done",
                             !.after = initiate_turn(tc.T, tc.turn_direction, tc.now)]
             ELSE IF tc.method = "execute_line_search"
             THEN [tc EXCEPT !.pc = "done",
                             !.after = line_search(tc.T, tc.line_sensors, tc.now,
                                                   tc.until_line_found).T,
                             !.speeds = line_search(tc.T, tc.line_sensors, tc.now,
                                                    tc.until_line_found).speeds]
             ELSE [tc EXCEPT !.pc = "done",
                             !.after = execute_turn(tc.T, tc.line_sensors, tc.now).T,
                             !.speeds = execute_turn(tc.T, tc.line_sensors, tc.now).speeds]
    /\ UNCHANGED not_turn

NextTurn == CallInitiateTurn \/ CallExecuteTurn \/ CallLineSearch \/ TurnReturn

(***************************************************************************)
(* One turn session followed over the iterations of the motion loop,       *)
(* the_sequel_bot.py:578-603, while the robot is connected and no stop or  *)
(* forward command arrives: every iteration calls initiate_turn and        *)
(* execute_turn with the effective command, which is the active command of *)
(* a running session (line 585) and a received turn command otherwise      *)
(* (line 592).  The controller compares only current_time -                *)
(* phase_start_time with its durations, so the clock is kept relative to   *)
(* the start of the phase; it stops counting at SessionClockMax, above     *)
(* every duration it is compared with.                                     *)
(***************************************************************************)
SessionClockMax == MAX_SEARCH_SPIN_DURATION + TickLen

\* the loop's pair of calls, lines 602-603
turn_in_loop(T, turn_direction, line_sensors, now) ==
    execute_turn(initiate_turn(T, turn_direction, now), line_sensors, now)

\* an iteration reads the clock and the line sensors and reaches line 602
LoopTurnCalled ==
    /\ tc.pc \in {"idle", "looped"}
    /\ \E line_sensors \in Sensors, turn_direction \in TurnCommands :
          tc' = [tc EXCEPT
                   !.pc = "looping", !.method = "turn_in_loop", !.T = tc.after,
                   !.turn_direction = IF tc.after.current_phase # "NONE"
                                      THEN tc.after.active_command
                                      ELSE turn_direction,
                   !.line_sensors = line_sensors,
                   !.now = IF tc.now + TickLen > SessionClockMax
                           THEN SessionClockMax ELSE tc.now + TickLen]
    /\ UNCHANGED not_turn

\* both calls return; the clock is counted from the phase's start again
LoopTurnReturns ==
    /\ tc.pc = "looping"
    /\ \E R \in {turn_in_loop(tc.T, tc.turn_direction, tc.line_sensors, tc.now)} :
          tc' = [tc EXCEPT !.pc = "looped",
                           !.after = [R.T EXCEPT !.phase_start_time = 0],
                           !.now = tc.now - R.T.phase_start_time,
                           !.speeds = R.speeds]
    /\ UNCHANGED not_turn

NextSession == LoopTurnCalled \/ LoopTurnReturns

\* both programs freshly started, dijkstra not yet called
Init == InitDijkstra /\ InitPlan /\ InitMotion /\ InitAction /\ InitFraming /\ InitTurn

SpecDijkstra == Init /\ [][NextDijkstra]_vars
SpecPlan == Init /\ [][NextPlan]_vars
SpecMotion == Init /\ [][NextMotion]_vars
SpecAction == Init /\ [][NextAction]_vars
SpecAnyPath == Init /\ [][NextAnyPath]_vars
SpecObstacles == Init /\ [][NextObstacles]_vars
SpecFraming == Init /\ [][NextFraming]_vars
SpecTurn == Init /\ [][NextTurn]_vars
\* the motion loop does not stop: `while robot.step(timestep) != -1`, line 501
SpecSession ==
    Init /\ [][NextSession]_vars /\ WF_vars(LoopTurnCalled) /\ WF_vars(LoopTurnReturns)

(***************************************************************************)
(* Claims about the motion side.                                           *)
(***************************************************************************)
\* the other turn direction
Opposite(turn_direction) ==
    IF turn_direction = "turn_left" THEN "turn_right" ELSE "turn_left"

\* the receives that deliver turn commands only, the opposite of the
\* session's direction among them
OppositeBatches(turn_direction) ==
    { actions \in Batches :
        /\ \A i \in 1..Len(actions) : actions[i] \in TurnCommands
        /\ \E i \in 1..Len(actions) : actions[i] = Opposite(turn_direction) }

\* C35: in every state with a turn session in progress, an iteration that
\* receives the opposite turn direction (and neither stop nor forward)
\* leaves the controller untouched at the receive, derives the session's
\* own direction as the effective command, and executes exactly the step of
\* the session that an iteration without any message executes: the
\* direction stays and the session is not restarted.
C35_OppositeTurnIgnored ==
    current_phase # "NONE" =>
      \A sensors \in Sensors, actions \in OppositeBatches(active_command) :
        LET now == current_time + TickLen
            M == ReceiveCommands([T |-> TurnState, esp32_command |-> esp32_command],
                                 actions)
            E == EffectiveCommand(M.T, M.esp32_command, sensors)
            X == ExecuteMovement(E.T, E.effective_command, sensors, now)
        IN  /\ M.T = TurnState
            /\ M.esp32_command \in TurnCommands
            /\ E.effective_command = active_command
            /\ E.T = TurnState
            /\ X.phase_run = current_phase
            /\ X = ExecuteMovement(TurnState, active_command, sensors, now)
            /\ X.T.current_phase # "NONE" =>
                  /\ X.T.active_command = active_command
                  /\ X.T.current_phase = current_phase
                       => X.T.phase_start_time = phase_start_time

\* an iteration during a turn session has received the opposite direction,
\* and the session goes on in its own direction, not restarted
C35_Witness ==
    /\ tick_event = "moved"
    /\ current_phase \notin {"NONE", "INITIATE_SPIN"}
    /\ active_command \in TurnCommands
    /\ esp32_command = Opposite(active_command)
    /\ effective_command = active_command
    /\ phase_start_time < current_time

\* the receives that deliver forward only, or nothing
ForwardBatches ==
    { actions \in Batches : \A i \in 1..Len(actions) : actions[i] = "forward" }

\* C36: in every state of a connected loop and for every receive: when the
\* receive leaves no turn in progress and forward as the remote command, and
\* no line sensor fires, the effective command is turn_left and the
\* iteration starts a left session (phase INITIATE_SPIN entered at this
\* iteration's time, run by execute_turn); and while a left session is in
\* progress under the remote command forward, an iteration that receives
\* nothing but forward has turn_left as its effective command whatever the
\* sensors read, and executes the next step of that session.
C36_ForwardOffLineTurnsLeft ==
    is_connected =>
      \A sensors \in Sensors, actions \in Batches :
        LET now == current_time + TickLen
            M == ReceiveCommands([T |-> TurnState, esp32_command |-> esp32_command],
                                 actions)
            E == EffectiveCommand(M.T, M.esp32_command, sensors)
            X == ExecuteMovement(E.T, E.effective_command, sensors, now)
        IN  /\ ( /\ M.T.current_phase = "NONE"
                 /\ M.esp32_command = "forward"
                 /\ ~AnyLine(sensors) )
               => /\ E.effective_command = "turn_left"
                  /\ X.phase_run = "INITIATE_SPIN"
                  /\ X.T = [current_phase |-> "INITIATE_SPIN",
                            active_command |-> "turn_left",
                            phase_start_time |-> now]
            /\ ( /\ current_phase # "NONE"
                 /\ active_command = "turn_left"
                 /\ esp32_command = "forward"
                 /\ actions \in ForwardBatches )
               => /\ E.effective_command = "turn_left"
                  /\ E.T = TurnState
                  /\ X.phase_run = current_phase
                  /\ X.T = execute_turn(TurnState, sensors, now).T

\* a left session started off the line under the remote command forward has
\* gone on, past its initial spin, with forward still the remote command
C36_Witness ==
    /\ tick_event = "moved"
    /\ esp32_command = "forward"
    /\ line_detected = <<0, 0, 0>>
    /\ effective_command = "turn_left"
    /\ active_command = "turn_left"
    /\ current_phase = "SEARCHING_LINE"
    /\ turn_phase_run = "SEARCHING_LINE"

\* C37: the iterations of a lost or missing link (no connection, a failed
\* send, a failed receive) leave esp32_command as it was; and when the
\* first iteration after a successful connection attempt gets as far as the
\* commands without a new one having arrived, it leaves esp32_command as it
\* was too, and its effective command and the speeds it gives the motors
\* are those derived from that esp32_command, held since before the link
\* was lost.
C37_StaleCommandSurvives ==
    [][ /\ tick_event' \in {"disconnected", "send_failed", "receive_failed"}
              => esp32_command' = esp32_command
        /\ first_without_command' =>
              LET E == EffectiveCommand(TurnState, esp32_command, line_detected')
                  X == ExecuteMovement(E.T, E.effective_command, line_detected',
                                       current_time')
              IN  /\ tick_event = "disconnected" /\ is_connected
                  /\ esp32_command' = esp32_command
                  /\ effective_command' = E.effective_command
                  /\ motor_velocity' = X.speeds ]_vars

\* the first iteration after a reconnection has received nothing and drives
\* forward on the command received before the link was lost
C37_Witness ==
    /\ tick_event = "moved"
    /\ first_without_command
    /\ last_connection_attempt = current_time - TickLen
    /\ esp32_command = "forward"
    /\ effective_command = "forward"
    /\ motor_velocity # <<0, 0>>

\* C3: whenever execute_turn runs in phase ADJUSTING_ON_LINE with
\* current_time - phase_start_time > MAX_ADJUST_DURATION, the phase becomes
\* NONE and the speeds given to the motors are (0, 0), whatever the sensors
\* read.
C3_AdjustTimeoutEndsTurn ==
    [][(/\ current_time' > current_time
        /\ turn_phase_run' = "ADJUSTING_ON_LINE"
        /\ current_time' - phase_start_time > MAX_ADJUST_DURATION)
       => (current_phase' = "NONE" /\ motor_velocity' = <<0, 0>>)]_vars

\* the edges of the turn state machine that need no command
PhaseEdges ==
    { <<"NONE", "INITIATE_SPIN">>, <<"INITIATE_SPIN", "SEARCHING_LINE">>,
      <<"SEARCHING_LINE", "ADJUSTING_ON_LINE">>, <<"ADJUSTING_ON_LINE", "NONE">>,
      <<"ADJUSTING_ON_LINE", "SEARCHING_LINE">> }

\* C22 as stated: from one iteration to the next the phase stays, or moves
\* along one of PhaseEdges, or is reset to NONE with stop or forward as the
\* command, or restarts at INITIATE_SPIN with a turn as the command.
C22_PhaseEdgesByCommand ==
    [][\/ current_phase' = current_phase
       \/ <<current_phase, current_phase'>> \in PhaseEdges
       \/ current_phase' = "NONE" /\ esp32_command' \in {"stop", "forward"}
       \/ current_phase' = "INITIATE_SPIN" /\ esp32_command' \in TurnCommands]_vars

\* C22 amended: the restart at INITIATE_SPIN comes with a turn as the
\* effective command of the iteration, which a forward command gives too
\* when no line sensor fires.
C22_PhaseEdgesByEffectiveCommand ==
    [][\/ current_phase' = current_phase
       \/ <<current_phase, current_phase'>> \in PhaseEdges
       \/ current_phase' = "NONE" /\ esp32_command' \in {"stop", "forward"}
       \/ /\ current_phase' = "INITIATE_SPIN"
          /\ effective_command' \in TurnCommands
          /\ \/ esp32_command' \in TurnCommands
             \/ esp32_command' = "forward" /\ ~AnyLine(line_detected')]_vars

\* an adjustment that lost the line went back to the search
C22_Witness ==
    /\ tick_event = "moved"
    /\ turn_phase_run = "ADJUSTING_ON_LINE"
    /\ current_phase = "SEARCHING_LINE"

\* C12 as stated: whenever an iteration ends with the link marked not
\* connected, the velocities last given to the motors are (0, 0), the
\* iteration that detects the failed send or receive included.
C12_DisconnectedMeansStopped ==
    ~is_connected => motor_velocity = <<0, 0>>

(***************************************************************************)
(* Claims about obstacle reporting.                                        *)
(***************************************************************************)
\* C15: no grid cell is in the detected_obstacles field of more than one
\* webots_status message, and no cell is twice in the field of one message,
\* whatever the poses, headings, range readings, sends and disconnects.
C15_ObstacleReportedOnce ==
    status_built =>
        /\ CellsOf(status_obstacles) \cap reported_before = {}
        /\ \A i, j \in 1..Len(status_obstacles) :
               status_obstacles[i] = status_obstacles[j] => i = j

\* a message reports a cell, collected while the link was down, that the
\* robot sees again in the iteration that builds the next message
C15_Witness ==
    /\ status_built
    /\ Len(status_obstacles) >= 2
    /\ reported_before # {}
    /\ tick_event = "moved"

(***************************************************************************)
(* Claims about framing.                                                   *)
(***************************************************************************)
\* C16 as stated: on both sides, once every byte sent has been read over an
\* open link, every message sent has been handled exactly once and in
\* order, wherever the reads cut the byte stream.
C16_SplitMessageHandledOnce ==
    /\ (planner_link /\ to_planner = <<>>) => statuses_handled = Expected(statuses_sent)
    /\ to_robot = <<>> => commands_handled = Expected(commands_sent)

(***************************************************************************)
(* Claims about the TurnController's methods.                              *)
(***************************************************************************)
\* C23: initiate_turn(d, t) sets the phase to INITIATE_SPIN, the active
\* command to d and phase_start_time to t exactly when the phase is NONE or
\* d differs from the active command; otherwise it changes nothing.
C23_InitiateTurnStartsOrKeeps ==
    (tc.pc = "done" /\ tc.method = "initiate_turn") =>
        IF tc.T.current_phase = "NONE" \/ tc.turn_direction # tc.T.active_command
        THEN tc.after = [current_phase |-> "INITIATE_SPIN",
                         active_command |-> tc.turn_direction,
                         phase_start_time |-> tc.now]
        ELSE tc.after = tc.T

\* a turn under way is told to turn the other way and starts afresh
C23_Witness ==
    /\ tc.pc = "done" /\ tc.method = "initiate_turn"
    /\ tc.T.current_phase = "ADJUSTING_ON_LINE"
    /\ tc.T.active_command = "turn_left" /\ tc.turn_direction = "turn_right"
    /\ tc.now > tc.T.phase_start_time
    /\ tc.after.current_phase = "INITIATE_SPIN"

\* the speeds of a spin in place: the wheel on the inside of the turn runs
\* backwards at inner hundredths of the turn speed, the other one forwards
\* at outer hundredths
SpinSpeeds(direction, inner, outer) ==
    LET backwards == -((FORWARD_SPEED * TURN_SPEED_FACTOR * inner) \div 100)
        forwards == (FORWARD_SPEED * TURN_SPEED_FACTOR * outer) \div 100
    IN  IF direction = "turn_left" THEN <<backwards, forwards>>
        ELSE <<forwards, backwards>>

\* C24: execute_turn in phase INITIATE_SPIN returns the spin speeds whatever
\* the sensors read; the phase stays INITIATE_SPIN while the time since
\* phase_start_time is at most MIN_INITIAL_SPIN_DURATION and becomes
\* SEARCHING_LINE, with phase_start_time the current time, once it is more.
C24_InitialSpinLastsMinimum ==
    (tc.pc = "done" /\ tc.method = "execute_turn" /\ tc.T.current_phase = "INITIATE_SPIN") =>
        /\ tc.speeds = SpinSpeeds(tc.T.active_command, 8, 11)
        /\ tc.speeds[1] * tc.speeds[2] < 0
        /\ tc.after.active_command = tc.T.active_command
        /\ IF tc.now - tc.T.phase_start_time > MIN_INITIAL_SPIN_DURATION
           THEN /\ tc.after.current_phase = "SEARCHING_LINE"
                /\ tc.after.phase_start_time = tc.now
           ELSE /\ tc.after.current_phase = "INITIATE_SPIN"
                /\ tc.after.phase_start_time = tc.T.phase_start_time

\* a spin exactly MIN_INITIAL_SPIN_DURATION old goes on, with the line in
\* sight
C24_Witness ==
    /\ tc.pc = "done" /\ tc.method = "execute_turn"
    /\ tc.T.current_phase = "INITIATE_SPIN"
    /\ tc.now - tc.T.phase_start_time = MIN_INITIAL_SPIN_DURATION
    /\ tc.line_sensors = <<0, 1, 0>>
    /\ tc.after.current_phase = "INITIATE_SPIN"

\* C25: in SEARCHING_LINE a call with any line sensor firing moves the phase
\* to ADJUSTING_ON_LINE with phase_start_time the current time; a call with
\* none firing leaves the controller as it is, except that with
\* TURN_UNTIL_LINE_FOUND false and more than MAX_SEARCH_SPIN_DURATION
\* elapsed the phase becomes NONE and the speeds are (0, 0).
C25_SearchEndsOnLineOrTimeout ==
    (tc.pc = "done" /\ tc.method = "execute_line_search") =>
        IF AnyLine(tc.line_sensors)
        THEN /\ tc.after.current_phase = "ADJUSTING_ON_LINE"
             /\ tc.after.phase_start_time = tc.now
        ELSE IF /\ ~tc.until_line_found
                /\ tc.now - tc.T.phase_start_time > MAX_SEARCH_SPIN_DURATION
        THEN tc.after.current_phase = "NONE" /\ tc.speeds = <<0, 0>>
        ELSE tc.after = tc.T /\ tc.speeds = SpinSpeeds(tc.T.active_command, 5, 9)

\* a search under the timeout policy gives up
C25_Witness ==
    /\ tc.pc = "done" /\ tc.method = "execute_line_search"
    /\ ~tc.until_line_found
    /\ tc.line_sensors = <<0, 0, 0>>
    /\ tc.now - tc.T.phase_start_time = MAX_SEARCH_SPIN_DURATION + 1
    /\ tc.after.current_phase = "NONE"

\* C26: execute_turn in phase ADJUSTING_ON_LINE, within MAX_ADJUST_DURATION
\* of the phase's start: with only the center sensor firing the session ends
\* (phase NONE, no active command); with no sensor firing the phase becomes
\* SEARCHING_LINE with phase_start_time the current time; with any of the
\* other six patterns the controller is left as it is.
C26_AdjustmentByPattern ==
    (/\ tc.pc = "done" /\ tc.method = "execute_turn"
     /\ tc.T.current_phase = "ADJUSTING_ON_LINE"
     /\ tc.now - tc.T.phase_start_time <= MAX_ADJUST_DURATION) =>
        IF tc.line_sensors = <<0, 1, 0>>
        THEN tc.after.current_phase = "NONE" /\ tc.after.active_command = NoCommand
        ELSE IF tc.line_sensors = <<0, 0, 0>>
        THEN /\ tc.after.current_phase = "SEARCHING_LINE"
             /\ tc.after.phase_start_time = tc.now
             /\ tc.after.active_command = tc.T.active_command
        ELSE tc.after = tc.T

\* an adjustment some time old, with the outer sensors on the line and the
\* center one off it, goes on
C26_Witness ==
    /\ tc.pc = "done" /\ tc.method = "execute_turn"
    /\ tc.T.current_phase = "ADJUSTING_ON_LINE"
    /\ tc.now - tc.T.phase_start_time = MAX_ADJUST_DURATION
    /\ tc.line_sensors = <<1, 0, 1>>
    /\ tc.after.current_phase = "ADJUSTING_ON_LINE"

\* C27: a turn session ends: whenever the phase is not NONE and the loop
\* goes on calling the controller with the turn as the effective command,
\* the phase is NONE again at some later iteration, whatever the line
\* sensors read
C27_SessionEnds ==
    (tc.pc = "looped" /\ tc.after.current_phase # "NONE")
        ~> (tc.pc = "looped" /\ tc.after.current_phase = "NONE")

\* C28: in every iteration of the motion loop, with `added` the cells the
\* iteration adds to detected_obstacles: detected_obstacles loses no cell;
\* an iteration that builds a status message hands over the pending list
\* followed by the added cells - all that was enqueued since the previous
\* message - and leaves the list empty; any other iteration, a disconnected
\* one included, appends the added cells to the list; and every cell of the
\* pending list is in detected_obstacles.
C28_DrainOnceOverPersistentSet ==
    [][LET added == detected_obstacles' \ detected_obstacles
           handed == IF status_built' THEN status_obstacles' ELSE recent_obstacles'
       IN  /\ detected_obstacles \subseteq detected_obstacles'
           /\ status_built' => recent_obstacles' = <<>>
           /\ Len(handed) = Len(recent_obstacles) + Cardinality(added)
           /\ SubSeq(handed, 1, Len(recent_obstacles)) = recent_obstacles
           /\ CellsOf(handed) = CellsOf(recent_obstacles) \cup added
           /\ CellsOf(recent_obstacles') \subseteq detected_obstacles'
           /\ CellsOf(recent_obstacles) \subseteq detected_obstacles]_vars

\* a message hands over one cell while the detector remembers three, two of
\* them reported earlier
C28_Witness ==
    /\ status_built
    /\ Len(status_obstacles) = 1
    /\ recent_obstacles = <<>>
    /\ Cardinality(detected_obstacles) >= 3
    /\ CellsOf(status_obstacles) \subseteq detected_obstacles

(***************************************************************************)
(* Claims about get_action_from_path on any path.                          *)
(***************************************************************************)
Actions == {"forward", "turn_left", "turn_right", "stop"}

====
